---- MODULE Spec2Model ----
(***************************************************************************)
(* The Rocket.Chat -> Zulip converter of zerver/data_import/rocketchat.py  *)
(* (do_convert_data and the functions it calls) as a state machine.        *)
(*                                                                         *)
(* Text is a sequence of one-character tokens, so that str.replace and     *)
(* len() are computed on characters; the token PAD stands for a run of     *)
(* PadLen filler characters that occur in no mention pattern.              *)
(* A Python dict is a sequence of entries in insertion order (the order    *)
(* `for k in d` visits), or a function where only lookups are made.        *)
(* An uncaught exception (KeyError, IndexError) ends the run: pc becomes   *)
(* "aborted" and nothing more is written.                                  *)
(***************************************************************************)
EXTENDS Integers, Sequences, FiniteSets, TLC

VARIABLES
    pc,                     \* the statement of do_convert_data to run next
    rc_users,               \* rocketchat_data["user"]
    rc_rooms,               \* rocketchat_data["room"]
    rc_messages,            \* rocketchat_data["message"]
    user_id_mapper,         \* IdMapper of users
    stream_id_mapper,       \* IdMapper of streams
    user_handler,           \* UserHandler: the profiles, in insertion order
    subscriber_handler,     \* SubscriberHandler: stream id -> set of user ids
    seq,                    \* the named counters behind NEXT_ID
    room_id_to_room_map,
    team_id_to_team_map,
    dsc_id_to_dsc_map,
    direct_id_to_direct_map,
    zerver_stream,
    zerver_recipient,
    zerver_subscription,
    stream_id_to_recipient_id,
    user_id_to_recipient_id,
    channel_messages,
    private_messages,
    raw_messages,           \* process_messages: the converted records of the class
    offset,                 \* process_list_in_batches: start of the next chunk
    total_reactions,
    artifacts,              \* the messages-NNNNNN.json files written so far
    realm_written,          \* realm.json has been written
    probe                   \* input and result of a single fix_mentions call

vars == <<pc, rc_users, rc_rooms, rc_messages, user_id_mapper, stream_id_mapper,
          user_handler, subscriber_handler, seq, room_id_to_room_map,
          team_id_to_team_map, dsc_id_to_dsc_map, direct_id_to_direct_map,
          zerver_stream, zerver_recipient, zerver_subscription,
          stream_id_to_recipient_id, user_id_to_recipient_id, channel_messages,
          private_messages, raw_messages, offset, total_reactions, artifacts,
          realm_written, probe>>

NONE == "None"

EmptyMap == [k \in {} |-> 0]

Min(a, b) == IF a < b THEN a ELSE b

Range(s) == {s[i] : i \in 1..Len(s)}

RECURSIVE SetToSeq(_)
SetToSeq(S) ==
    IF S = {} THEN <<>>
    ELSE LET m == CHOOSE x \in S : \A y \in S : x <= y
         IN <<m>> \o SetToSeq(S \ {m})

(***************************************************************************)
(* Bounds of the model.                                                    *)
(***************************************************************************)
MaxMessages == 2      \* messages in the export, small runs
BigChunks == 2        \* full chunks in the export, large runs
MaxPieces == 4        \* pieces of a body handed to fix_mentions alone
MaxVaried == 2        \* messages in the export, varied runs
MaxUsers == 2         \* entries of the users collection, user runs
MaxSeparated == 3     \* messages handed to the partitioning alone

(***************************************************************************)
(* Constants of the program.                                               *)
(***************************************************************************)
chunk_size == 1000
MaxContentLen == 10000

\* characters the PAD token stands for
PadLen == MaxContentLen - 4

(***************************************************************************)
(* zerver.data_import.sequencer                                            *)
(***************************************************************************)
NewIdMapper == [map |-> EmptyMap, cnt |-> 0]

\* IdMapper.get: the integer returned
IdMapperId(m, k) == IF k \in DOMAIN m.map THEN m.map[k] ELSE m.cnt

\* IdMapper.get that records the key and forgets to advance the counter
IdMapperGetNoAdvance(m, k) ==
    IF k \in DOMAIN m.map THEN m
    ELSE [map |-> m.map @@ (k :> m.cnt), cnt |-> m.cnt]

\* IdMapper.get that spends an integer on a key it already knows
IdMapperGetSpendingOnRepeat(m, k) ==
    IF k \in DOMAIN m.map THEN [map |-> m.map, cnt |-> m.cnt + 1]
    ELSE [map |-> m.map @@ (k :> m.cnt), cnt |-> m.cnt + 1]

\* IdMapper.get: the mapper afterwards
IdMapperGet(m, k) ==
    IF k \in DOMAIN m.map THEN m
    ELSE [map |-> m.map @@ (k :> m.cnt), cnt |-> m.cnt + 1]

\* the table of named counters, no name seen yet
NewSeq == EmptyMap

\* NEXT_ID(name): the value returned; an unseen name starts at 0
NEXT_ID(s, name) == IF name \in DOMAIN s THEN s[name] ELSE 0

\* NEXT_ID(name), n times: the counters afterwards
BumpBy(s, name, n) ==
    [k \in DOMAIN s \cup {name} |-> IF k = name THEN NEXT_ID(s, name) + n ELSE s[k]]

Bump(s, name) == BumpBy(s, name, 1)

(***************************************************************************)
(* The export.  Users u1 and u2 are in the users collection, u3 is an      *)
(* account that is not; rooms c1 and c2 are in the rooms collection, c9 is *)
(* a room id that is not.                                                   *)
(***************************************************************************)
domain_name == "zulip.example.com"

SourceUser(id, username, name, type, emails, roles, rooms) ==
    [id |-> id, username |-> username, name |-> name, type |-> type,
     emails |-> emails, roles |-> roles, rooms |-> rooms]

SourceChannel(id, t, prid, uids, name, fname, teamId, teamMain) ==
    [id |-> id, t |-> t, prid |-> prid, uids |-> uids, name |-> name,
     fname |-> fname, teamId |-> teamId, teamMain |-> teamMain]

SourceMessage(rid, u, t, ts, msg, mentions, reactions) ==
    [rid |-> rid, u |-> u, t |-> t, ts |-> ts, msg |-> msg,
     mentions |-> mentions, reactions |-> reactions]

(***************************************************************************)
(* Dict helpers: an index is the sequence of its entries in insertion      *)
(* order; ids are unique within a collection of the export.                *)
(***************************************************************************)
InIndex(idx, id) == \E i \in 1..Len(idx) : idx[i].id = id

IndexGet(idx, id) == idx[CHOOSE i \in 1..Len(idx) : idx[i].id = id]

\* map_user_id_to_user: a dict keeps a key at its first position, with its last value
map_user_id_to_user(user_data_list) ==
    LET n == Len(user_data_list)
        last(i) == CHOOSE j \in i..n :
                      /\ user_data_list[j].id = user_data_list[i].id
                      /\ \A k \in (j + 1)..n : user_data_list[k].id # user_data_list[i].id
        firsts == {i \in 1..n : \A j \in 1..(i - 1) : user_data_list[j].id # user_data_list[i].id}
        order == SetToSeq(firsts)
    IN [p \in 1..Len(order) |-> user_data_list[last(order[p])]]

\* map_username_to_user_id: a later user of the same username overwrites
map_username_to_user_id(user_id_to_user_map) ==
    LET names == {user_id_to_user_map[i].username : i \in 1..Len(user_id_to_user_map)}
    IN [nm \in names |->
          LET j == CHOOSE j \in 1..Len(user_id_to_user_map) :
                     /\ user_id_to_user_map[j].username = nm
                     /\ \A k \in (j + 1)..Len(user_id_to_user_map) :
                            user_id_to_user_map[k].username # nm
          IN user_id_to_user_map[j].id]

(***************************************************************************)
(* zerver.data_import.user_handler and import_util.SubscriberHandler       *)
(***************************************************************************)
HandlerHas(handler, user_id) == \E i \in 1..Len(handler) : handler[i].id = user_id

\* UserHandler.get_user
get_user(handler, user_id) == handler[CHOOSE i \in 1..Len(handler) : handler[i].id = user_id]

\* UserHandler.add_user
add_user(handler, user) == Append(handler, user)

\* SubscriberHandler.set_info
set_info(handler, users, stream_id) ==
    [k \in DOMAIN handler \cup {stream_id} |-> IF k = stream_id THEN users ELSE handler[k]]

\* SubscriberHandler.get_users
get_users(handler, stream_id) == IF stream_id \in DOMAIN handler THEN handler[stream_id] ELSE {}

(***************************************************************************)
(* process_users                                                           *)
(***************************************************************************)
PlaceholderEmail(user_dict) == user_dict.username \o <<"-", user_dict.type, "@", domain_name>>

\* lines 60-69 with the placeholder made for an account of any type
UserEmailsAnyType(user_dict) ==
    IF user_dict.emails = <<>> THEN <<PlaceholderEmail(user_dict)>> ELSE user_dict.emails

UserEmails(user_dict) ==
    IF user_dict.type # "user" /\ user_dict.emails = <<>>
    THEN <<PlaceholderEmail(user_dict)>>
    ELSE user_dict.emails

UserRole(user_dict) ==
    IF "admin" \in user_dict.roles THEN "ROLE_REALM_OWNER"
    ELSE IF "guest" \in user_dict.roles THEN "ROLE_GUEST"
    ELSE "ROLE_MEMBER"

\* one iteration of the loop: acc = [ok, mapper, handler]
ProcessUser(acc, user_dict) ==
    LET is_mirror_dummy == user_dict.type # "user"
        emails == UserEmails(user_dict)
        id == IdMapperId(acc.mapper, user_dict.id)
        mapper == IdMapperGet(acc.mapper, user_dict.id)
    IN IF emails = <<>> \/ HandlerHas(acc.handler, id)
       THEN [acc EXCEPT !.ok = FALSE, !.mapper = mapper]
       ELSE [ok |-> TRUE, mapper |-> mapper,
             handler |-> add_user(acc.handler,
                 [id |-> id, full_name |-> user_dict.name,
                  short_name |-> user_dict.username, email |-> emails[1],
                  delivery_email |-> emails[1], role |-> UserRole(user_dict),
                  is_active |-> ~is_mirror_dummy, is_mirror_dummy |-> is_mirror_dummy])]

RECURSIVE process_users(_, _, _)
process_users(user_id_to_user_map, i, acc) ==
    IF ~acc.ok \/ i > Len(user_id_to_user_map) THEN acc
    ELSE process_users(user_id_to_user_map, i + 1, ProcessUser(acc, user_id_to_user_map[i]))

(***************************************************************************)
(* categorize_channels_and_map_with_id                                     *)
(***************************************************************************)
\* lines 447-450 with the direct tag tested before the parent reference
IsDiscussionUnlessDirect(channel) == channel.prid # NONE /\ channel.t # "d"

IsDiscussion(channel) == channel.prid # NONE

IsDirect(channel) == ~IsDiscussion(channel) /\ channel.t = "d"

IsRoom(channel) == ~IsDiscussion(channel) /\ channel.t # "d"

CategorizeRooms(channel_data) == SelectSeq(channel_data, IsRoom)

CategorizeDiscussions(channel_data) == SelectSeq(channel_data, IsDiscussion)

CategorizeDirects(channel_data) == SelectSeq(channel_data, IsDirect)

IsTeamMain(channel) == IsRoom(channel) /\ channel.teamMain

\* team_id_to_team_map[teamId] = channel, the last main channel of a team winning
CategorizeTeams(channel_data) ==
    LET mains == SelectSeq(channel_data, IsTeamMain)
        ids == {mains[i].teamId : i \in 1..Len(mains)}
    IN [tid \in ids |->
          mains[CHOOSE j \in 1..Len(mains) :
                   /\ mains[j].teamId = tid
                   /\ \A k \in (j + 1)..Len(mains) : mains[k].teamId # tid]]

(***************************************************************************)
(* convert_channel_data                                                    *)
(***************************************************************************)
\* the team lookup of line 128 fails for a team without a main channel
ChannelTeamKnown(channel_dict, team_map) ==
    channel_dict.teamId = NONE \/ channel_dict.teamMain \/ channel_dict.teamId \in DOMAIN team_map

StreamName(channel_dict) ==
    IF channel_dict.teamId # NONE /\ channel_dict.teamMain
    THEN <<"[TEAM] ">> \o channel_dict.name
    ELSE channel_dict.name

StreamDesc(channel_dict, team_map) ==
    IF channel_dict.teamId # NONE /\ ~channel_dict.teamMain
    THEN <<"[Team ">> \o team_map[channel_dict.teamId].name \o <<" channel]. ">>
    ELSE <<>>

\* one iteration of the loop: acc = [ok, mapper, streams]
ConvertChannel(acc, channel_dict, team_map) ==
    LET stream_id == IdMapperId(acc.mapper, channel_dict.id)
        mapper == IdMapperGet(acc.mapper, channel_dict.id)
    IN IF ~ChannelTeamKnown(channel_dict, team_map)
       THEN [acc EXCEPT !.ok = FALSE, !.mapper = mapper]
       ELSE [ok |-> TRUE, mapper |-> mapper,
             streams |-> Append(acc.streams,
                 [id |-> stream_id, name |-> StreamName(channel_dict),
                  description |-> StreamDesc(channel_dict, team_map),
                  invite_only |-> (channel_dict.t = "p")])]

RECURSIVE convert_channel_data(_, _, _, _)
convert_channel_data(room_map, team_map, i, acc) ==
    IF ~acc.ok \/ i > Len(room_map) THEN acc
    ELSE convert_channel_data(room_map, team_map, i + 1,
                              ConvertChannel(acc, room_map[i], team_map))

(***************************************************************************)
(* convert_subscription_data                                               *)
(***************************************************************************)
\* the inner loop over user_dict["__rooms"]: acc = [smap, members]
RECURSIVE SubscribeRooms(_, _, _, _, _)
SubscribeRooms(rooms, j, user_id, dsc_map, acc) ==
    IF j > Len(rooms) THEN acc
    ELSE IF InIndex(dsc_map, rooms[j])
         THEN SubscribeRooms(rooms, j + 1, user_id, dsc_map, acc)
         ELSE LET stream_id == IdMapperId(acc.smap, rooms[j])
                  old == IF stream_id \in DOMAIN acc.members THEN acc.members[stream_id] ELSE {}
              IN SubscribeRooms(rooms, j + 1, user_id, dsc_map,
                     [smap |-> IdMapperGet(acc.smap, rooms[j]),
                      members |-> [k \in DOMAIN acc.members \cup {stream_id} |->
                                      IF k = stream_id THEN old \cup {user_id}
                                      ELSE acc.members[k]]])

\* the outer loop over the users: acc = [smap, umap, members]
RECURSIVE StreamMembers(_, _, _, _)
StreamMembers(user_map, i, dsc_map, acc) ==
    IF i > Len(user_map) THEN acc
    ELSE IF user_map[i].rooms = <<>>
         THEN StreamMembers(user_map, i + 1, dsc_map, acc)
         ELSE LET touches == \E j \in 1..Len(user_map[i].rooms) :
                                 ~InIndex(dsc_map, user_map[i].rooms[j])
                  umap == IF touches THEN IdMapperGet(acc.umap, user_map[i].id) ELSE acc.umap
                  inner == SubscribeRooms(user_map[i].rooms, 1,
                                          IdMapperId(acc.umap, user_map[i].id), dsc_map,
                                          [smap |-> acc.smap, members |-> acc.members])
              IN StreamMembers(user_map, i + 1, dsc_map,
                     [smap |-> inner.smap, umap |-> umap, members |-> inner.members])

\* a second loop that walks the collected member map instead of the streams
SetAllInfoPerMember(streams, i, members, handler) ==
    [k \in DOMAIN handler \cup DOMAIN members |->
        IF k \in DOMAIN members THEN members[k] ELSE handler[k]]

\* the second loop: one set_info per stream
RECURSIVE SetAllInfo(_, _, _, _)
SetAllInfo(streams, i, members, handler) ==
    IF i > Len(streams) THEN handler
    ELSE SetAllInfo(streams, i + 1, members,
             set_info(handler,
                      IF streams[i].id \in DOMAIN members THEN members[streams[i].id] ELSE {},
                      streams[i].id))

(***************************************************************************)
(* import_util: build_recipients, build_personal_subscriptions,            *)
(* build_stream_subscriptions                                              *)
(***************************************************************************)
build_recipients(s, users, streams) ==
    [i \in 1..(Len(users) + Len(streams)) |->
        IF i <= Len(users)
        THEN [id |-> NEXT_ID(s, "recipient") + i - 1, type |-> "personal",
              type_id |-> users[i].id]
        ELSE [id |-> NEXT_ID(s, "recipient") + i - 1, type |-> "stream",
              type_id |-> streams[i - Len(users)].id]]

IsPersonal(recipient) == recipient.type = "personal"

IsStream(recipient) == recipient.type = "stream"

build_personal_subscriptions(recipients) ==
    LET personal == SelectSeq(recipients, IsPersonal)
    IN [i \in 1..Len(personal) |->
          [user_profile |-> personal[i].type_id, recipient |-> personal[i].id]]

RECURSIVE build_stream_subscriptions(_, _, _)
build_stream_subscriptions(handler, recipients, i) ==
    IF i > Len(recipients) THEN <<>>
    ELSE IF ~IsStream(recipients[i])
         THEN build_stream_subscriptions(handler, recipients, i + 1)
         ELSE LET members == SetToSeq(get_users(handler, recipients[i].type_id))
              IN [j \in 1..Len(members) |->
                     [user_profile |-> members[j], recipient |-> recipients[i].id]]
                 \o build_stream_subscriptions(handler, recipients, i + 1)

(***************************************************************************)
(* map_receiver_id_to_recipient_id                                         *)
(***************************************************************************)
\* map_receiver_id_to_recipient_id without the test of recipient["type"]
ReceiverMapAnyType(recipients, type) ==
    [tid \in {recipients[i].type_id : i \in 1..Len(recipients)} |->
        recipients[CHOOSE j \in 1..Len(recipients) :
                      /\ recipients[j].type_id = tid
                      /\ \A k \in (j + 1)..Len(recipients) : recipients[k].type_id # tid].id]

\* map_receiver_id_to_recipient_id with key and value exchanged
ReceiverMapSwapped(recipients, type) ==
    LET chosen == SelectSeq(recipients, LAMBDA r : r.type = type)
    IN [id \in {chosen[i].id : i \in 1..Len(chosen)} |->
          chosen[CHOOSE j \in 1..Len(chosen) : chosen[j].id = id].type_id]

ReceiverMap(recipients, type) ==
    LET of == SelectSeq(recipients, LAMBDA r : r.type = type)
    IN [tid \in {of[i].type_id : i \in 1..Len(of)} |->
          of[CHOOSE j \in 1..Len(of) :
                /\ of[j].type_id = tid
                /\ \A k \in (j + 1)..Len(of) : of[k].type_id # tid].id]

(***************************************************************************)
(* Text: str.replace, len                                                  *)
(***************************************************************************)
\* s.replace(old, new) for a non-empty old: leftmost matches, not overlapping
RECURSIVE ReplaceFrom(_, _, _, _)
ReplaceFrom(s, i, old, new) ==
    IF i + Len(old) - 1 > Len(s) THEN SubSeq(s, i, Len(s))
    ELSE IF SubSeq(s, i, i + Len(old) - 1) = old
         THEN new \o ReplaceFrom(s, i + Len(old), old, new)
         ELSE <<s[i]>> \o ReplaceFrom(s, i + 1, old, new)

Replace(s, old, new) == ReplaceFrom(s, 1, old, new)

Contains(s, sub) ==
    \E i \in 1..(Len(s) - Len(sub) + 1) : SubSeq(s, i, i + Len(sub) - 1) = sub

TokenLen(tok) == IF tok = "PAD" THEN PadLen ELSE 1

\* len(content)
RECURSIVE ContentLen(_)
ContentLen(content) ==
    IF content = <<>> THEN 0 ELSE TokenLen(Head(content)) + ContentLen(Tail(content))

AtAll == <<"@", "a", "l", "l">>

AtHere == <<"@", "h", "e", "r", "e">>

ZulipAll == <<"@", "*", "*", "a", "l", "l", "*", "*">>

rc_mention(user) == <<"@">> \o user.short_name

zulip_mention(user) == <<"@", "*", "*">> \o user.full_name \o <<"*", "*">>

(***************************************************************************)
(* process_raw_message_batch.fix_mentions                                  *)
(* `order` is the order in which the loop visits mention_user_ids.         *)
(***************************************************************************)
RECURSIVE FixUserMentions(_, _, _, _)
FixUserMentions(content, order, i, handler) ==
    IF i > Len(order) THEN content
    ELSE LET user == get_user(handler, order[i])
         IN FixUserMentions(Replace(content, rc_mention(user), zulip_mention(user)),
                            order, i + 1, handler)

\* lines 228-231 without the replacement of "@here"
FixBroadcastAllOnly(content) == Replace(content, AtAll, ZulipAll)

FixBroadcast(content) == Replace(Replace(content, AtAll, ZulipAll), AtHere, ZulipAll)

fix_mentions(content, order, handler) == FixBroadcast(FixUserMentions(content, order, 1, handler))

\* a set of small non-negative ints is visited in increasing order
MentionOrder(mention_user_ids) == SetToSeq(mention_user_ids)

(***************************************************************************)
(* process_messages.list_reactions                                         *)
(***************************************************************************)
\* react_code.split(":")[1]: the text between the first two colons
EmojiName(react_code) ==
    LET colons == {i \in 1..Len(react_code) : react_code[i] = ":"}
        first == CHOOSE i \in colons : \A j \in colons : i <= j
        rest == colons \ {first}
        second == IF rest = {} THEN Len(react_code) + 1
                  ELSE CHOOSE i \in rest : \A j \in rest : i <= j
    IN SubSeq(react_code, first + 1, second - 1)

HasColon(react_code) == \E i \in 1..Len(react_code) : react_code[i] = ":"

\* the inner loop over the usernames of one react_code: acc = [ok, umap, list]
RECURSIVE ListUsernames(_, _, _, _, _)
ListUsernames(usernames, j, name, username_map, acc) ==
    IF ~acc.ok \/ j > Len(usernames) THEN acc
    ELSE IF usernames[j] \notin DOMAIN username_map
         THEN [acc EXCEPT !.ok = FALSE]
         ELSE LET rc_user_id == username_map[usernames[j]]
              IN ListUsernames(usernames, j + 1, name, username_map,
                     [ok |-> TRUE, umap |-> IdMapperGet(acc.umap, rc_user_id),
                      list |-> Append(acc.list,
                          [name |-> name, user_id |-> IdMapperId(acc.umap, rc_user_id)])])

RECURSIVE list_reactions(_, _, _, _)
list_reactions(reactions, i, username_map, acc) ==
    IF ~acc.ok \/ i > Len(reactions) THEN acc
    ELSE IF ~HasColon(reactions[i].code)
         THEN [acc EXCEPT !.ok = FALSE]
         ELSE list_reactions(reactions, i + 1, username_map,
                  ListUsernames(reactions[i].usernames, 1, EmojiName(reactions[i].code),
                                username_map, acc))

(***************************************************************************)
(* process_messages.message_to_dict                                        *)
(* ctx = [is_pm_data, username_map, direct_map, dsc_map, user_recipient,   *)
(*        stream_recipient]; the result is [ok, umap, smap, dict]          *)
(***************************************************************************)
DiscussionPrefix == <<"(Discussion) ">>

\* line 361 reading "name" in place of "fname"
DiscussionTopicByName(dsc_channel) == DiscussionPrefix \o dsc_channel.name

\* line 361
DiscussionTopic(dsc_channel) == DiscussionPrefix \o dsc_channel.fname

RoomTopic == <<"Imported from Rocket.Chat">>

\* lines 349-352 without the test of the sender: always the first member
DirectPeerIndexFirst(rc_sender_id, rc_member_ids) == 1

\* the member of a direct channel a message of rc_sender_id is addressed to
DirectPeerIndex(rc_sender_id, rc_member_ids) ==
    IF Len(rc_member_ids) >= 1 /\ rc_sender_id = rc_member_ids[1] THEN 2 ELSE 1

\* lines 344-365: [ok, umap, smap, recipient_id, topic_name]
ResolveRecipient(message, umap, smap, ctx) ==
    LET failed == [ok |-> FALSE, umap |-> umap, smap |-> smap,
                   recipient_id |-> 0, topic_name |-> <<>>]
    IN IF ctx.is_pm_data
       THEN IF ~InIndex(ctx.direct_map, message.rid) THEN failed
            ELSE LET rc_member_ids == IndexGet(ctx.direct_map, message.rid).uids
                     k == DirectPeerIndex(message.u, rc_member_ids)
                 IN IF k > Len(rc_member_ids) THEN failed
                    ELSE LET zulip_member_id == IdMapperId(umap, rc_member_ids[k])
                             umap2 == IdMapperGet(umap, rc_member_ids[k])
                         IN IF zulip_member_id \notin DOMAIN ctx.user_recipient
                            THEN [failed EXCEPT !.umap = umap2]
                            ELSE [ok |-> TRUE, umap |-> umap2, smap |-> smap,
                                  recipient_id |-> ctx.user_recipient[zulip_member_id],
                                  topic_name |-> <<>>]
       ELSE LET in_dsc == InIndex(ctx.dsc_map, message.rid)
                rc_stream == IF in_dsc THEN IndexGet(ctx.dsc_map, message.rid).prid
                             ELSE message.rid
                stream_id == IdMapperId(smap, rc_stream)
                smap2 == IdMapperGet(smap, rc_stream)
            IN IF stream_id \notin DOMAIN ctx.stream_recipient
               THEN [failed EXCEPT !.smap = smap2]
               ELSE [ok |-> TRUE, umap |-> umap, smap |-> smap2,
                     recipient_id |-> ctx.stream_recipient[stream_id],
                     topic_name |-> IF in_dsc
                                    THEN DiscussionTopic(IndexGet(ctx.dsc_map, message.rid))
                                    ELSE RoomTopic]

\* lines 368-375: acc = [umap, ids]
RECURSIVE ResolveMentions(_, _, _)
ResolveMentions(mentions, i, acc) ==
    IF i > Len(mentions) THEN acc
    ELSE IF mentions[i] \in {"all", "here"}
         THEN ResolveMentions(mentions, i + 1, acc)
         ELSE ResolveMentions(mentions, i + 1,
                  [umap |-> IdMapperGet(acc.umap, mentions[i]),
                   ids |-> acc.ids \cup {IdMapperId(acc.umap, mentions[i])}])

message_to_dict(message, umap, smap, ctx) ==
    LET sender_id == IdMapperId(umap, message.u)
        umap1 == IdMapperGet(umap, message.u)
        reacts == list_reactions(message.reactions, 1, ctx.username_map,
                                 [ok |-> TRUE, umap |-> umap1, list |-> <<>>])
        rcpt == ResolveRecipient(message, reacts.umap, smap, ctx)
        ment == ResolveMentions(message.mentions, 1, [umap |-> rcpt.umap, ids |-> {}])
    IN IF ~reacts.ok
       THEN [ok |-> FALSE, umap |-> reacts.umap, smap |-> smap, dict |-> <<>>]
       ELSE IF ~rcpt.ok
       THEN [ok |-> FALSE, umap |-> rcpt.umap, smap |-> rcpt.smap, dict |-> <<>>]
       ELSE [ok |-> TRUE, umap |-> ment.umap, smap |-> rcpt.smap,
             dict |-> [sender_id |-> sender_id, content |-> message.msg,
                       date_sent |-> message.ts, reactions |-> reacts.list,
                       recipient_id |-> rcpt.recipient_id,
                       topic_name |-> rcpt.topic_name,
                       mention_user_ids |-> ment.ids]]

\* lines 381-384 without the test of "t"
IsEventNever(message) == FALSE

\* lines 380-385, one iteration: acc = [ok, umap, smap, raw]
IsEvent(message) == message.t # NONE

\* a loop body that passes over a message it cannot convert
ConvertOneSkipping(acc, message, ctx) ==
    IF IsEvent(message) THEN acc
    ELSE LET r == message_to_dict(message, acc.umap, acc.smap, ctx)
         IN [ok |-> TRUE, umap |-> r.umap, smap |-> r.smap,
             raw |-> IF r.ok THEN Append(acc.raw, r.dict) ELSE acc.raw]

ConvertOne(acc, message, ctx) ==
    IF IsEvent(message) THEN acc
    ELSE LET r == message_to_dict(message, acc.umap, acc.smap, ctx)
         IN [ok |-> r.ok, umap |-> r.umap, smap |-> r.smap,
             raw |-> IF r.ok THEN Append(acc.raw, r.dict) ELSE acc.raw]

\* lines 380-385, the loop over messages[lo..hi]
RECURSIVE ConvertAll(_, _, _, _, _)
ConvertAll(messages, lo, hi, acc, ctx) ==
    IF ~acc.ok \/ lo > hi THEN acc
    ELSE IF lo = hi THEN ConvertOne(acc, messages[lo], ctx)
    ELSE LET mid == (lo + hi) \div 2
         IN ConvertAll(messages, mid + 1, hi, ConvertAll(messages, lo, mid, acc, ctx), ctx)

(***************************************************************************)
(* build_reactions                                                         *)
(***************************************************************************)
\* zerver.lib.emoji.name_to_codepoint: the emoji names that are known
name_to_codepoint == {<<"s", "m", "i", "l", "e">>}

\* build_reactions that draws the reaction id before it looks up the name
RECURSIVE build_reactions_id_first(_, _, _, _)
build_reactions_id_first(reactions, i, message_id, acc) ==
    IF i > Len(reactions) THEN acc
    ELSE IF reactions[i].name \notin name_to_codepoint
         THEN build_reactions_id_first(reactions, i + 1, message_id,
                  [s |-> Bump(acc.s, "reaction"), total |-> acc.total])
         ELSE build_reactions_id_first(reactions, i + 1, message_id,
                  [s |-> Bump(acc.s, "reaction"),
                   total |-> Append(acc.total,
                       [id |-> NEXT_ID(acc.s, "reaction"), emoji_name |-> reactions[i].name,
                        message |-> message_id, user_profile |-> reactions[i].user_id])])

\* build_reactions that starts a list of its own for every message instead of
\* extending total_reactions
RECURSIVE build_reactions_own_list(_, _, _, _)
build_reactions_own_list(reactions, i, message_id, acc) ==
    LET base == IF i = 1 THEN [s |-> acc.s, total |-> <<>>] ELSE acc
    IN IF i > Len(reactions) THEN base
       ELSE IF reactions[i].name \notin name_to_codepoint
            THEN build_reactions_own_list(reactions, i + 1, message_id, base)
            ELSE build_reactions_own_list(reactions, i + 1, message_id,
                     [s |-> Bump(base.s, "reaction"),
                      total |-> Append(base.total,
                          [id |-> NEXT_ID(base.s, "reaction"),
                           emoji_name |-> reactions[i].name,
                           message |-> message_id,
                           user_profile |-> reactions[i].user_id])])

\* acc = [s, total]
RECURSIVE build_reactions(_, _, _, _)
build_reactions(reactions, i, message_id, acc) ==
    IF i > Len(reactions) THEN acc
    ELSE IF reactions[i].name \notin name_to_codepoint
         THEN build_reactions(reactions, i + 1, message_id, acc)
         ELSE build_reactions(reactions, i + 1, message_id,
                  [s |-> Bump(acc.s, "reaction"),
                   total |-> Append(acc.total,
                       [id |-> NEXT_ID(acc.s, "reaction"), emoji_name |-> reactions[i].name,
                        message |-> message_id, user_profile |-> reactions[i].user_id])])

(***************************************************************************)
(* process_raw_message_batch                                               *)
(***************************************************************************)
\* lines 247-249 with a ceiling that is itself too long
TooLongAtCeiling(content) == ContentLen(content) >= MaxContentLen

TooLong(content) == ContentLen(content) > MaxContentLen

MentionsKnown(raw_message, handler) ==
    \A user_id \in raw_message.mention_user_ids : HandlerHas(handler, user_id)

build_message(content, message_id, date_sent, recipient_id, topic_name, user_id) ==
    [id |-> message_id, content |-> content, date_sent |-> date_sent,
     recipient |-> recipient_id, topic_name |-> topic_name, sender |-> user_id]

\* line 238 with a counter of its own for the private messages
MessageCounterPerClass(is_pm_data) == IF is_pm_data THEN "message_pm" ELSE "message"

\* line 238: one counter for the messages of both classes
MessageCounter(is_pm_data) == "message"

\* lines 237-275 with the reactions built before the length test
BatchOneReactionsFirst(acc, raw_message, handler, is_pm_data) ==
    LET message_id == NEXT_ID(acc.s, MessageCounter(is_pm_data))
        s1 == Bump(acc.s, MessageCounter(is_pm_data))
    IN IF ~MentionsKnown(raw_message, handler)
       THEN [acc EXCEPT !.ok = FALSE, !.s = s1]
       ELSE LET content == fix_mentions(raw_message.content,
                                        MentionOrder(raw_message.mention_user_ids), handler)
                r == build_reactions(raw_message.reactions, 1, message_id,
                                     [s |-> s1, total |-> acc.total])
            IN IF TooLong(content)
               THEN [acc EXCEPT !.s = r.s, !.total = r.total]
               ELSE [ok |-> TRUE, s |-> r.s,
                     zerver_message |-> Append(acc.zerver_message,
                         build_message(content, message_id, raw_message.date_sent,
                                       raw_message.recipient_id, raw_message.topic_name,
                                       raw_message.sender_id)),
                     total |-> r.total]

\* lines 237-275, one iteration: acc = [ok, s, zerver_message, total]
BatchOne(acc, raw_message, handler, is_pm_data) ==
    LET message_id == NEXT_ID(acc.s, MessageCounter(is_pm_data))
        s1 == Bump(acc.s, MessageCounter(is_pm_data))
    IN IF ~MentionsKnown(raw_message, handler)
       THEN [acc EXCEPT !.ok = FALSE, !.s = s1]
       ELSE LET content == fix_mentions(raw_message.content,
                                        MentionOrder(raw_message.mention_user_ids), handler)
            IN IF TooLong(content)
               THEN [acc EXCEPT !.s = s1]
               ELSE LET r == build_reactions(raw_message.reactions, 1, message_id,
                                             [s |-> s1, total |-> acc.total])
                    IN [ok |-> TRUE, s |-> r.s,
                        zerver_message |-> Append(acc.zerver_message,
                            build_message(content, message_id, raw_message.date_sent,
                                          raw_message.recipient_id, raw_message.topic_name,
                                          raw_message.sender_id)),
                        total |-> r.total]

\* lines 237-275, the loop over raw_messages[lo..hi]
RECURSIVE BatchAll(_, _, _, _, _, _)
BatchAll(items, lo, hi, acc, handler, is_pm_data) ==
    IF ~acc.ok \/ lo > hi THEN acc
    ELSE IF lo = hi THEN BatchOne(acc, items[lo], handler, is_pm_data)
    ELSE LET mid == (lo + hi) \div 2
         IN BatchAll(items, mid + 1, hi,
                     BatchAll(items, lo, mid, acc, handler, is_pm_data),
                     handler, is_pm_data)

(***************************************************************************)
(* separate_channel_and_private_messages                                   *)
(***************************************************************************)
\* line 416, not message.get("rid"): the key is missing (NONE) or its value is empty
HasRid(message) == message.rid \notin {NONE, ""}

\* lines 408-423: the two lists afterwards
separate_channel_and_private_messages(messages, direct_map) ==
    [ok |-> TRUE,
     channel |-> SelectSeq(messages, LAMBDA m : HasRid(m) /\ ~InIndex(direct_map, m.rid)),
     private |-> SelectSeq(messages, LAMBDA m : HasRid(m) /\ InIndex(direct_map, m.rid))]

\* rocketchat1.py lines 390-400: message["rid"] raises for a missing key, and
\* the messages before it are already in the lists; acc = [ok, channel, private]
RECURSIVE separate_channel_and_private_messages1(_, _, _, _)
separate_channel_and_private_messages1(messages, direct_map, i, acc) ==
    IF ~acc.ok \/ i > Len(messages) THEN acc
    ELSE separate_channel_and_private_messages1(messages, direct_map, i + 1,
             IF messages[i].rid = NONE THEN [acc EXCEPT !.ok = FALSE]
             ELSE IF InIndex(direct_map, messages[i].rid)
             THEN [acc EXCEPT !.private = Append(@, messages[i])]
             ELSE [acc EXCEPT !.channel = Append(@, messages[i])])

(***************************************************************************)
(* do_convert_data, statement by statement                                 *)
(***************************************************************************)
user_id_to_user_map == map_user_id_to_user(rc_users)

username_to_user_id_map == map_username_to_user_id(user_id_to_user_map)

Context(is_pm_data) ==
    [is_pm_data |-> is_pm_data, username_map |-> username_to_user_id_map,
     direct_map |-> direct_id_to_direct_map, dsc_map |-> dsc_id_to_dsc_map,
     user_recipient |-> user_id_to_recipient_id,
     stream_recipient |-> stream_id_to_recipient_id]

\* lines 522-528
ProcessUsers ==
    /\ pc = "process_users"
    /\ LET r == process_users(user_id_to_user_map, 1,
                    [ok |-> TRUE, mapper |-> user_id_mapper, handler |-> user_handler])
       IN /\ user_id_mapper' = r.mapper
          /\ user_handler' = r.handler
          /\ pc' = IF r.ok THEN "categorize_channels" ELSE "aborted"
    /\ UNCHANGED <<rc_users, rc_rooms, rc_messages, stream_id_mapper, subscriber_handler,
                   seq, room_id_to_room_map, team_id_to_team_map, dsc_id_to_dsc_map,
                   direct_id_to_direct_map, zerver_stream, zerver_recipient,
                   zerver_subscription, stream_id_to_recipient_id,
                   user_id_to_recipient_id, channel_messages, private_messages,
                   raw_messages, offset, total_reactions, artifacts, realm_written, probe>>

\* lines 530-541
CategorizeChannels ==
    /\ pc = "categorize_channels"
    /\ room_id_to_room_map' = CategorizeRooms(rc_rooms)
    /\ team_id_to_team_map' = CategorizeTeams(rc_rooms)
    /\ dsc_id_to_dsc_map' = CategorizeDiscussions(rc_rooms)
    /\ direct_id_to_direct_map' = CategorizeDirects(rc_rooms)
    /\ pc' = "convert_channel_data"
    /\ UNCHANGED <<rc_users, rc_rooms, rc_messages, user_id_mapper, stream_id_mapper,
                   user_handler, subscriber_handler, seq, zerver_stream, zerver_recipient,
                   zerver_subscription, stream_id_to_recipient_id,
                   user_id_to_recipient_id, channel_messages, private_messages,
                   raw_messages, offset, total_reactions, artifacts, realm_written, probe>>

\* lines 543-549
ConvertChannelData ==
    /\ pc = "convert_channel_data"
    /\ LET r == convert_channel_data(room_id_to_room_map, team_id_to_team_map, 1,
                    [ok |-> TRUE, mapper |-> stream_id_mapper, streams |-> <<>>])
       IN /\ stream_id_mapper' = r.mapper
          /\ zerver_stream' = IF r.ok THEN r.streams ELSE zerver_stream
          /\ pc' = IF r.ok THEN "convert_subscription_data" ELSE "aborted"
    /\ UNCHANGED <<rc_users, rc_rooms, rc_messages, user_id_mapper, user_handler,
                   subscriber_handler, seq, room_id_to_room_map, team_id_to_team_map,
                   dsc_id_to_dsc_map, direct_id_to_direct_map, zerver_recipient,
                   zerver_subscription, stream_id_to_recipient_id,
                   user_id_to_recipient_id, channel_messages, private_messages,
                   raw_messages, offset, total_reactions, artifacts, realm_written, probe>>

\* lines 552-559
ConvertSubscriptionData ==
    /\ pc = "convert_subscription_data"
    /\ LET r == StreamMembers(user_id_to_user_map, 1, dsc_id_to_dsc_map,
                    [smap |-> stream_id_mapper, umap |-> user_id_mapper,
                     members |-> EmptyMap])
       IN /\ stream_id_mapper' = r.smap
          /\ user_id_mapper' = r.umap
          /\ subscriber_handler' = SetAllInfo(zerver_stream, 1, r.members, subscriber_handler)
    /\ pc' = "build_recipients"
    /\ UNCHANGED <<rc_users, rc_rooms, rc_messages, user_handler, seq,
                   room_id_to_room_map, team_id_to_team_map, dsc_id_to_dsc_map,
                   direct_id_to_direct_map, zerver_stream, zerver_recipient,
                   zerver_subscription, stream_id_to_recipient_id,
                   user_id_to_recipient_id, channel_messages, private_messages,
                   raw_messages, offset, total_reactions, artifacts, realm_written, probe>>

\* lines 561-567
BuildRecipients ==
    /\ pc = "build_recipients"
    /\ zerver_recipient' = build_recipients(seq, user_handler, zerver_stream)
    /\ seq' = BumpBy(seq, "recipient", Len(user_handler) + Len(zerver_stream))
    /\ pc' = "build_subscriptions"
    /\ UNCHANGED <<rc_users, rc_rooms, rc_messages, user_id_mapper, stream_id_mapper,
                   user_handler, subscriber_handler, room_id_to_room_map,
                   team_id_to_team_map, dsc_id_to_dsc_map, direct_id_to_direct_map,
                   zerver_stream, zerver_subscription, stream_id_to_recipient_id,
                   user_id_to_recipient_id, channel_messages, private_messages,
                   raw_messages, offset, total_reactions, artifacts, realm_written, probe>>

\* lines 569-579 without the personal subscriptions
SubscriptionsStreamOnly(handler, recipients) ==
    build_stream_subscriptions(handler, recipients, 1)

\* lines 569-579: personal_subscriptions + stream_subscriptions
Subscriptions(handler, recipients) ==
    build_personal_subscriptions(recipients)
        \o build_stream_subscriptions(handler, recipients, 1)

\* lines 569-580
BuildSubscriptions ==
    /\ pc = "build_subscriptions"
    /\ zerver_subscription' = Subscriptions(subscriber_handler, zerver_recipient)
    /\ pc' = "map_receiver_id"
    /\ UNCHANGED <<rc_users, rc_rooms, rc_messages, user_id_mapper, stream_id_mapper,
                   user_handler, subscriber_handler, seq, room_id_to_room_map,
                   team_id_to_team_map, dsc_id_to_dsc_map, direct_id_to_direct_map,
                   zerver_stream, zerver_recipient, stream_id_to_recipient_id,
                   user_id_to_recipient_id, channel_messages, private_messages,
                   raw_messages, offset, total_reactions, artifacts, realm_written, probe>>

\* lines 594-601
MapReceiverIdToRecipientId ==
    /\ pc = "map_receiver_id"
    /\ stream_id_to_recipient_id' = ReceiverMap(zerver_recipient, "stream")
    /\ user_id_to_recipient_id' = ReceiverMap(zerver_recipient, "personal")
    /\ pc' = "separate_messages"
    /\ UNCHANGED <<rc_users, rc_rooms, rc_messages, user_id_mapper, stream_id_mapper,
                   user_handler, subscriber_handler, seq, room_id_to_room_map,
                   team_id_to_team_map, dsc_id_to_dsc_map, direct_id_to_direct_map,
                   zerver_stream, zerver_recipient, zerver_subscription,
                   channel_messages, private_messages, raw_messages, offset,
                   total_reactions, artifacts, realm_written, probe>>

\* lines 603-611
SeparateMessages ==
    /\ pc = "separate_messages"
    /\ LET r == separate_channel_and_private_messages(rc_messages, direct_id_to_direct_map)
       IN /\ private_messages' = r.private
          /\ channel_messages' = r.channel
    /\ pc' = "convert_channel_messages"
    /\ UNCHANGED <<rc_users, rc_rooms, rc_messages, user_id_mapper, stream_id_mapper,
                   user_handler, subscriber_handler, seq, room_id_to_room_map,
                   team_id_to_team_map, dsc_id_to_dsc_map, direct_id_to_direct_map,
                   zerver_stream, zerver_recipient, zerver_subscription,
                   stream_id_to_recipient_id, user_id_to_recipient_id, raw_messages,
                   offset, total_reactions, artifacts, realm_written, probe>>

ClassMessages(is_pm_data) == IF is_pm_data THEN private_messages ELSE channel_messages

ConvertPc(is_pm_data) ==
    IF is_pm_data THEN "convert_private_messages" ELSE "convert_channel_messages"

BatchPc(is_pm_data) ==
    IF is_pm_data THEN "batch_private_messages" ELSE "batch_channel_messages"

\* lines 633-651 with realm.json written right after the channel messages
AfterPcRealmFirst(is_pm_data) == "write_realm"

AfterPc(is_pm_data) == IF is_pm_data THEN "write_realm" ELSE "convert_private_messages"

\* process_messages, lines 379-385: every message of the class is converted
\* before the first chunk is processed
ConvertMessages(is_pm_data) ==
    /\ pc = ConvertPc(is_pm_data)
    /\ LET messages == ClassMessages(is_pm_data)
           r == ConvertAll(messages, 1, Len(messages),
                    [ok |-> TRUE, umap |-> user_id_mapper, smap |-> stream_id_mapper,
                     raw |-> <<>>],
                    Context(is_pm_data))
       IN /\ user_id_mapper' = r.umap
          /\ stream_id_mapper' = r.smap
          /\ raw_messages' = r.raw
          /\ pc' = IF ~r.ok THEN "aborted"
                   ELSE IF r.raw = <<>> THEN AfterPc(is_pm_data)
                   ELSE BatchPc(is_pm_data)
    /\ offset' = 0
    /\ UNCHANGED <<rc_users, rc_rooms, rc_messages, user_handler, subscriber_handler, seq,
                   room_id_to_room_map, team_id_to_team_map, dsc_id_to_dsc_map,
                   direct_id_to_direct_map, zerver_stream, zerver_recipient,
                   zerver_subscription, stream_id_to_recipient_id,
                   user_id_to_recipient_id, channel_messages, private_messages,
                   total_reactions, artifacts, realm_written, probe>>

\* process_list_in_batches: the chunk that starts at offset
Chunk(lst, off) == SubSeq(lst, off + 1, Min(off + chunk_size, Len(lst)))

\* a file whose name does not carry the number drawn for it
ArtifactUnnumbered(dump_file_id, is_pm_data, zerver_message) ==
    [dump_file_id |-> 0, is_pm_data |-> is_pm_data, zerver_message |-> zerver_message]

\* the file written by lines 284-291
Artifact(dump_file_id, is_pm_data, zerver_message) ==
    [dump_file_id |-> dump_file_id, is_pm_data |-> is_pm_data,
     zerver_message |-> zerver_message]

\* one call of process_raw_message_batch, on the next chunk
ProcessRawMessageBatch(is_pm_data) ==
    /\ pc = BatchPc(is_pm_data)
    /\ offset < Len(raw_messages)
    /\ LET items == Chunk(raw_messages, offset)
           r == BatchAll(items, 1, Len(items),
                    [ok |-> TRUE, s |-> seq, zerver_message |-> <<>>,
                     total |-> total_reactions],
                    user_handler, is_pm_data)
       IN /\ total_reactions' = r.total
          /\ seq' = IF r.ok THEN Bump(r.s, "dump_file_id0") ELSE r.s
          /\ artifacts' = IF r.ok
                          THEN Append(artifacts,
                                   Artifact(NEXT_ID(r.s, "dump_file_id0"), is_pm_data,
                                            r.zerver_message))
                          ELSE artifacts
          /\ pc' = IF ~r.ok THEN "aborted"
                   ELSE IF offset + chunk_size >= Len(raw_messages) THEN AfterPc(is_pm_data)
                   ELSE BatchPc(is_pm_data)
    /\ offset' = offset + chunk_size
    /\ UNCHANGED <<rc_users, rc_rooms, rc_messages, user_id_mapper, stream_id_mapper,
                   user_handler, subscriber_handler, room_id_to_room_map,
                   team_id_to_team_map, dsc_id_to_dsc_map, direct_id_to_direct_map,
                   zerver_stream, zerver_recipient, zerver_subscription,
                   stream_id_to_recipient_id, user_id_to_recipient_id, channel_messages,
                   private_messages, raw_messages, realm_written, probe>>

ConvertChannelMessages == ConvertMessages(FALSE)

BatchChannelMessages == ProcessRawMessageBatch(FALSE)

ConvertPrivateMessages == ConvertMessages(TRUE)

BatchPrivateMessages == ProcessRawMessageBatch(TRUE)

\* lines 651-655
WriteRealm ==
    /\ pc = "write_realm"
    /\ realm_written' = TRUE
    /\ pc' = "done"
    /\ UNCHANGED <<rc_users, rc_rooms, rc_messages, user_id_mapper, stream_id_mapper,
                   user_handler, subscriber_handler, seq, room_id_to_room_map,
                   team_id_to_team_map, dsc_id_to_dsc_map, direct_id_to_direct_map,
                   zerver_stream, zerver_recipient, zerver_subscription,
                   stream_id_to_recipient_id, user_id_to_recipient_id, channel_messages,
                   private_messages, raw_messages, offset, total_reactions, artifacts,
                   probe>>

Next ==
    \/ ProcessUsers
    \/ CategorizeChannels
    \/ ConvertChannelData
    \/ ConvertSubscriptionData
    \/ BuildRecipients
    \/ BuildSubscriptions
    \/ MapReceiverIdToRecipientId
    \/ SeparateMessages
    \/ ConvertChannelMessages
    \/ BatchChannelMessages
    \/ ConvertPrivateMessages
    \/ BatchPrivateMessages
    \/ WriteRealm

(***************************************************************************)
(* The state after lines 505-520 and 530-533, 594-595, 603-604, 613: the   *)
(* export is read, every store is empty.                                   *)
(***************************************************************************)
Start(users, rooms, messages) ==
    /\ pc = "process_users"
    /\ rc_users = users
    /\ rc_rooms = rooms
    /\ rc_messages = messages
    /\ user_id_mapper = NewIdMapper
    /\ stream_id_mapper = NewIdMapper
    /\ user_handler = <<>>
    /\ subscriber_handler = EmptyMap
    /\ seq = NewSeq
    /\ room_id_to_room_map = <<>>
    /\ team_id_to_team_map = EmptyMap
    /\ dsc_id_to_dsc_map = <<>>
    /\ direct_id_to_direct_map = <<>>
    /\ zerver_stream = <<>>
    /\ zerver_recipient = <<>>
    /\ zerver_subscription = <<>>
    /\ stream_id_to_recipient_id = EmptyMap
    /\ user_id_to_recipient_id = EmptyMap
    /\ channel_messages = <<>>
    /\ private_messages = <<>>
    /\ raw_messages = <<>>
    /\ offset = 0
    /\ total_reactions = <<>>
    /\ artifacts = <<>>
    /\ realm_written = FALSE
    /\ probe = [content |-> <<>>, order |-> <<>>, result |-> <<>>]

(***************************************************************************)
(* Exports of the small runs: two users, two rooms of any category, up to  *)
(* MaxMessages plain messages of any sender and room.                      *)
(***************************************************************************)
Address(name) == <<name, "@", "rc.example.com">>

User1 == SourceUser("u1", <<"a">>, <<"A">>, "user", <<Address("a")>>, {"admin"}, <<"c1">>)

User2 == SourceUser("u2", <<"b">>, <<"B">>, "user", <<Address("b")>>, {"user"}, <<"c1", "c2">>)

Title(id) == IF id = "c1" THEN <<"Standup">> ELSE <<"Bug Triage">>

RoomChannel(id) == SourceChannel(id, "c", NONE, <<>>, <<id>>, <<id>>, NONE, FALSE)

DiscussionChannel(id, t, prid) == SourceChannel(id, t, prid, <<>>, <<id>>, Title(id), NONE, FALSE)

DirectChannel(id, uids) == SourceChannel(id, "d", NONE, uids, <<id>>, <<id>>, NONE, FALSE)

ContextChoices(id) ==
    {RoomChannel(id), DirectChannel(id, <<"u1", "u2">>), DiscussionChannel(id, "c", "c9")}

ChannelChoices(id) ==
    {RoomChannel(id),
     DiscussionChannel(id, "c", "c1"), DiscussionChannel(id, "d", "c1"),
     DiscussionChannel(id, "p", "c9"),
     DirectChannel(id, <<"u1", "u2">>), DirectChannel(id, <<"u2", "u3">>),
     DirectChannel(id, <<"u1">>)}

ShortBody == <<"h", "i">>

Reaction(name, usernames) == [code |-> <<":">> \o name \o <<":">>, usernames |-> usernames]

Smile(usernames) == Reaction(<<"s", "m", "i", "l", "e">>, usernames)

\* a plain message is sent by any account in any room; an event message
\* (user joined, ...) also carries a mention and a reaction
MessageChoices ==
    [rid : {"c1", "c2"}, u : {"u1", "u2", "u3"}, t : {NONE},
     mentions : {<<>>}, reactions : {<<>>}]
    \cup {[rid |-> "c9", u |-> "u1", t |-> NONE, mentions |-> <<>>, reactions |-> <<>>],
          [rid |-> "c1", u |-> "u1", t |-> "uj", mentions |-> <<"u3">>,
           reactions |-> <<Smile(<<<<"a">>>>)>>],
          [rid |-> "c2", u |-> "u3", t |-> "uj", mentions |-> <<"u3">>,
           reactions |-> <<Smile(<<<<"z">>>>)>>],
          [rid |-> "c9", u |-> "u1", t |-> "au", mentions |-> <<"u3">>,
           reactions |-> <<Smile(<<<<"a">>>>)>>]}

MessageLists ==
    {[i \in 1..Len(l) |->
        SourceMessage(l[i].rid, l[i].u, l[i].t, i, ShortBody, l[i].mentions, l[i].reactions)] :
        l \in UNION {[1..n -> MessageChoices] : n \in 0..MaxMessages}}

Init ==
    \E r1 \in ContextChoices("c1"), r2 \in ChannelChoices("c2"), messages \in MessageLists :
        Start(<<User1, User2>>, <<r1, r2>>, messages)

Spec == Init /\ [][Next]_vars

(***************************************************************************)
(* Exports of the large runs: room c1 and the direct channel c2 of u1 and  *)
(* u2, nc messages in c1 followed by nd in c2, at most one of them with a  *)
(* body over the length ceiling: the last of a full chunk, or the message  *)
(* after it, which can be a chunk by itself.                               *)
(***************************************************************************)
LongBody == <<"PAD", "h", "i", "h", "i", "!">>

BatchSizes ==
    {0} \cup {k * chunk_size + d : k \in 1..BigChunks, d \in {-1, 0, 1}}
        \cup {BigChunks * chunk_size + 500}

BigMessages(nc, nd, longAt) ==
    [i \in 1..(nc + nd) |->
        SourceMessage(IF i <= nc THEN "c1" ELSE "c2",
                      IF i % 2 = 1 THEN "u1" ELSE "u2",
                      NONE, i,
                      IF i = longAt THEN LongBody ELSE ShortBody,
                      <<>>,
                      IF i % 2 = 0 THEN <<Smile(<<<<"a">>>>)>> ELSE <<>>)]

\* bodies around the length ceiling: as long as the ceiling; under it, with a
\* mention of u1 whose rewriting takes it over the ceiling
ExactBody == <<"PAD", "h", "i", "h", "i">>

MentionBody == <<"PAD", "@", "a">>

\* one message more than a chunk in room c1; the last four messages of the
\* first chunk are: MentionBody not listed as a mention, ExactBody,
\* MentionBody listed as a mention of u1, LongBody
EdgeMessages ==
    [i \in 1..(chunk_size + 1) |->
        SourceMessage("c1",
                      IF i % 2 = 1 THEN "u1" ELSE "u2",
                      NONE, i,
                      IF i = chunk_size THEN LongBody
                      ELSE IF i \in {chunk_size - 1, chunk_size - 3} THEN MentionBody
                      ELSE IF i = chunk_size - 2 THEN ExactBody
                      ELSE ShortBody,
                      IF i = chunk_size - 1 THEN <<"u1">> ELSE <<>>,
                      IF i % 2 = 0 THEN <<Smile(<<<<"a">>>>)>> ELSE <<>>)]

InitBatch ==
    \/ \E nc \in BatchSizes, nd \in {0, chunk_size + 1},
          longAt \in {0, chunk_size, chunk_size + 1} :
          /\ longAt <= nc + nd
          /\ nd = 0 \/ nc <= chunk_size + 1
          /\ Start(<<User1, User2>>,
                   <<RoomChannel("c1"), DirectChannel("c2", <<"u1", "u2">>)>>,
                   BigMessages(nc, nd, longAt))
    \/ Start(<<User1, User2>>,
             <<RoomChannel("c1"), DirectChannel("c2", <<"u1", "u2">>)>>,
             EdgeMessages)

SpecBatch == InitBatch /\ [][Next]_vars

(***************************************************************************)
(* Exports of the varied runs: users with different room lists, rooms with *)
(* team flags and with several category marks at once, up to MaxVaried     *)
(* messages with reactions, an over-length body or a room that is missing. *)
(***************************************************************************)
VariedUser1(rooms) ==
    SourceUser("u1", <<"a">>, <<"A">>, "user", <<Address("a")>>, {"admin"}, rooms)

VariedUser2(rooms) ==
    SourceUser("u2", <<"b">>, <<"B">>, "user", <<Address("b")>>, {"user"}, rooms)

TeamChannel(id, t, prid, uids, teamId, teamMain) ==
    SourceChannel(id, t, prid, uids, <<id>>, Title(id), teamId, teamMain)

VariedFirstRooms == {RoomChannel("c1"), TeamChannel("c1", "c", NONE, <<>>, "t1", TRUE)}

VariedSecondRooms ==
    {RoomChannel("c2"),
     TeamChannel("c2", "p", NONE, <<>>, "t1", FALSE),
     TeamChannel("c2", "d", "c1", <<"u1", "u2">>, "t1", TRUE),
     DirectChannel("c2", <<"u1", "u2">>),
     TeamChannel("c2", "d", NONE, <<"u1", "u2">>, "t2", TRUE)}

Frown(usernames) == Reaction(<<"z", "z">>, usernames)

VariedChoices ==
    {[rid |-> "c1", u |-> "u1", msg |-> ShortBody, mentions |-> <<>>,
      reactions |-> <<Frown(<<<<"a">>>>), Smile(<<<<"a">>, <<"b">>>>)>>],
     [rid |-> "c2", u |-> "u2", msg |-> ShortBody, mentions |-> <<"u1">>,
      reactions |-> <<Frown(<<<<"b">>>>)>>],
     [rid |-> "c1", u |-> "u2", msg |-> LongBody, mentions |-> <<>>,
      reactions |-> <<Smile(<<<<"a">>>>)>>],
     [rid |-> "c9", u |-> "u1", msg |-> LongBody, mentions |-> <<>>,
      reactions |-> <<Smile(<<<<"z">>>>)>>]}

VariedLists ==
    {[i \in 1..Len(l) |->
        SourceMessage(l[i].rid, l[i].u, NONE, i, l[i].msg, l[i].mentions, l[i].reactions)] :
        l \in UNION {[1..n -> VariedChoices] : n \in 0..MaxVaried}}

InitVaried ==
    \E rooms1 \in {<<>>, <<"c1">>},
       rooms2 \in {<<"c1", "c2">>, <<"c2", "c2", "c7">>},
       r1 \in VariedFirstRooms, r2 \in VariedSecondRooms, messages \in VariedLists :
        Start(<<VariedUser1(rooms1), VariedUser2(rooms2)>>, <<r1, r2>>, messages)

SpecVaried == InitVaried /\ [][Next]_vars

(***************************************************************************)
(* Exports of the user runs: up to MaxUsers entries for the accounts u1    *)
(* and u2, of any account type, with or without an email, an account id    *)
(* possibly listed twice; a message of u1 in room c1 that mentions u2 and   *)
(* a message of u1 in the direct channel c2 of u1 and u2.                  *)
(***************************************************************************)
UserName(id) == IF id = "u1" THEN "a" ELSE "b"

UserChoices ==
    {SourceUser(id, <<UserName(id)>>, <<id>>, type, emails, {"user"}, <<"c1">>) :
        id \in {"u1", "u2"}, type \in {"user", "bot", "unknown"},
        emails \in {<<>>, <<Address("x")>>}}

UserLists == UNION {[1..n -> UserChoices] : n \in 0..MaxUsers}

UserRunMessages ==
    <<SourceMessage("c1", "u1", NONE, 1, ShortBody, <<"u2">>, <<>>),
      SourceMessage("c2", "u1", NONE, 2, ShortBody, <<>>, <<>>)>>

InitUsers ==
    \E users \in UserLists :
        Start(users, <<RoomChannel("c1"), DirectChannel("c2", <<"u1", "u2">>)>>,
              UserRunMessages)

SpecUsers == InitUsers /\ [][Next]_vars

(***************************************************************************)
(* separate_channel_and_private_messages alone, in both variants of the    *)
(* importer: up to MaxSeparated messages whose channel reference is        *)
(* missing, empty, a room or the direct channel c2, with c2 in the direct  *)
(* index or not.                                                           *)
(***************************************************************************)
SeparatedRids == {NONE, "", "c1", "c2"}

SeparatedLists ==
    {[i \in 1..Len(l) |-> SourceMessage(l[i], "u1", NONE, i, ShortBody, <<>>, <<>>)] :
        l \in UNION {[1..n -> SeparatedRids] : n \in 0..MaxSeparated}}

InitSeparate ==
    \E messages \in SeparatedLists,
       direct_map \in {<<>>, <<DirectChannel("c2", <<"u1", "u2">>)>>} :
        /\ pc = "separate"
        /\ rc_users = <<>>
        /\ rc_rooms = <<>>
        /\ rc_messages = messages
        /\ user_id_mapper = NewIdMapper
        /\ stream_id_mapper = NewIdMapper
        /\ user_handler = <<>>
        /\ subscriber_handler = EmptyMap
        /\ seq = NewSeq
        /\ room_id_to_room_map = <<>>
        /\ team_id_to_team_map = EmptyMap
        /\ dsc_id_to_dsc_map = <<>>
        /\ direct_id_to_direct_map = direct_map
        /\ zerver_stream = <<>>
        /\ zerver_recipient = <<>>
        /\ zerver_subscription = <<>>
        /\ stream_id_to_recipient_id = EmptyMap
        /\ user_id_to_recipient_id = EmptyMap
        /\ channel_messages = <<>>
        /\ private_messages = <<>>
        /\ raw_messages = <<>>
        /\ offset = 0
        /\ total_reactions = <<>>
        /\ artifacts = <<>>
        /\ realm_written = FALSE
        /\ probe = [content |-> <<>>, order |-> <<>>, result |-> <<>>]

\* one call of rocketchat.py's separate_channel_and_private_messages
Separate ==
    /\ pc = "separate"
    /\ LET r == separate_channel_and_private_messages(rc_messages, direct_id_to_direct_map)
       IN /\ private_messages' = r.private
          /\ channel_messages' = r.channel
          /\ pc' = "separated"
    /\ UNCHANGED <<rc_users, rc_rooms, rc_messages, user_id_mapper, stream_id_mapper,
                   user_handler, subscriber_handler, seq, room_id_to_room_map,
                   team_id_to_team_map, dsc_id_to_dsc_map, direct_id_to_direct_map,
                   zerver_stream, zerver_recipient, zerver_subscription,
                   stream_id_to_recipient_id, user_id_to_recipient_id, raw_messages,
                   offset, total_reactions, artifacts, realm_written, probe>>

\* one call of rocketchat1.py's separate_channel_and_private_messages
Separate1 ==
    /\ pc = "separate"
    /\ LET r == separate_channel_and_private_messages1(rc_messages, direct_id_to_direct_map, 1,
                    [ok |-> TRUE, channel |-> <<>>, private |-> <<>>])
       IN /\ private_messages' = r.private
          /\ channel_messages' = r.channel
          /\ pc' = IF r.ok THEN "separated1" ELSE "aborted"
    /\ UNCHANGED <<rc_users, rc_rooms, rc_messages, user_id_mapper, stream_id_mapper,
                   user_handler, subscriber_handler, seq, room_id_to_room_map,
                   team_id_to_team_map, dsc_id_to_dsc_map, direct_id_to_direct_map,
                   zerver_stream, zerver_recipient, zerver_subscription,
                   stream_id_to_recipient_id, user_id_to_recipient_id, raw_messages,
                   offset, total_reactions, artifacts, realm_written, probe>>

NextSeparate == Separate \/ Separate1

SpecSeparate == InitSeparate /\ [][NextSeparate]_vars

(***************************************************************************)
(* fix_mentions alone: a body of up to MaxPieces pieces, the mentioned     *)
(* users visited in any order.  The handle of user 0 is a prefix of the    *)
(* handle of user 1, which is a prefix of "all".                           *)
(***************************************************************************)
Profile(id, short_name, full_name) ==
    [id |-> id, full_name |-> full_name, short_name |-> short_name,
     email |-> Address(short_name[1]), delivery_email |-> Address(short_name[1]),
     role |-> "ROLE_MEMBER", is_active |-> TRUE, is_mirror_dummy |-> FALSE]

MentionUsers == <<Profile(0, <<"a">>, <<"A">>), Profile(1, <<"a", "l">>, <<"B">>)>>

Pieces == {<<"@">>, <<"a">>, <<"l">>, <<"a", "l", "l">>, <<"h", "e", "r", "e">>, <<" ">>}

RECURSIVE Bodies(_)
Bodies(n) ==
    IF n = 0 THEN {<<>>}
    ELSE LET shorter == Bodies(n - 1)
         IN shorter \cup {b \o piece : b \in shorter, piece \in Pieces}

MentionOrders == {<<>>, <<0>>, <<1>>, <<0, 1>>, <<1, 0>>}

InitMention ==
    \E content \in Bodies(MaxPieces), order \in MentionOrders :
        /\ pc = "fix_mentions"
        /\ rc_users = <<>>
        /\ rc_rooms = <<>>
        /\ rc_messages = <<>>
        /\ user_id_mapper = NewIdMapper
        /\ stream_id_mapper = NewIdMapper
        /\ user_handler = MentionUsers
        /\ subscriber_handler = EmptyMap
        /\ seq = NewSeq
        /\ room_id_to_room_map = <<>>
        /\ team_id_to_team_map = EmptyMap
        /\ dsc_id_to_dsc_map = <<>>
        /\ direct_id_to_direct_map = <<>>
        /\ zerver_stream = <<>>
        /\ zerver_recipient = <<>>
        /\ zerver_subscription = <<>>
        /\ stream_id_to_recipient_id = EmptyMap
        /\ user_id_to_recipient_id = EmptyMap
        /\ channel_messages = <<>>
        /\ private_messages = <<>>
        /\ raw_messages = <<>>
        /\ offset = 0
        /\ total_reactions = <<>>
        /\ artifacts = <<>>
        /\ realm_written = FALSE
        /\ probe = [content |-> content, order |-> order, result |-> <<>>]

\* lines 242-245: one call of fix_mentions
FixMentions ==
    /\ pc = "fix_mentions"
    /\ probe' = [probe EXCEPT !.result = fix_mentions(probe.content, probe.order, user_handler)]
    /\ pc' = "fixed"
    /\ UNCHANGED <<rc_users, rc_rooms, rc_messages, user_id_mapper, stream_id_mapper,
                   user_handler, subscriber_handler, seq, room_id_to_room_map,
                   team_id_to_team_map, dsc_id_to_dsc_map, direct_id_to_direct_map,
                   zerver_stream, zerver_recipient, zerver_subscription,
                   stream_id_to_recipient_id, user_id_to_recipient_id, channel_messages,
                   private_messages, raw_messages, offset, total_reactions, artifacts,
                   realm_written>>

NextMention == FixMentions

SpecMention == InitMention /\ [][NextMention]_vars

(***************************************************************************)
(* Vocabulary of the properties: the emitted messages and where they came  *)
(* from.  date_sent of an emitted message is the ts of its source message, *)
(* which is its position in the export.                                    *)
(***************************************************************************)
EmittedIn(is_pm_data) ==
    UNION {Range(artifacts[i].zerver_message) :
              i \in {j \in 1..Len(artifacts) : artifacts[j].is_pm_data = is_pm_data}}

Emitted == EmittedIn(TRUE) \cup EmittedIn(FALSE)

EmittedIds == {m.id : m \in Emitted}

RECURSIVE EmittedCountTo(_)
EmittedCountTo(i) ==
    IF i = 0 THEN 0 ELSE Len(artifacts[i].zerver_message) + EmittedCountTo(i - 1)

EmittedCount == EmittedCountTo(Len(artifacts))

SourceOf(m) == rc_messages[m.date_sent]

ChannelsWithId(rid) == {ch \in Range(rc_rooms) : ch.id = rid}

\* the target users made from the source user rc_user_id
ProfilesOf(rc_user_id) ==
    {p \in Range(user_handler) :
        \E u \in Range(rc_users) : u.id = rc_user_id /\ u.username = p.short_name}

PersonalRecipientIds(rc_user_id) ==
    {r.id : r \in {x \in Range(zerver_recipient) :
                      x.type = "personal" /\ \E p \in ProfilesOf(rc_user_id) : p.id = x.type_id}}

\* the stages that follow the conversion of the messages of one class
AfterConversion(is_pm_data) ==
    IF is_pm_data THEN {"batch_private_messages", "write_realm", "done"}
    ELSE {"batch_channel_messages", "convert_private_messages",
          "batch_private_messages", "write_realm", "done"}

\* the stages that follow the last chunk of one class
AfterBatches(is_pm_data) ==
    IF is_pm_data THEN {"write_realm", "done"}
    ELSE {"convert_private_messages", "batch_private_messages", "write_realm", "done"}

(***************************************************************************)
(* C1: each IdMapper is injective (two distinct source keys never have the *)
(* same target id) and stable (a key that has an id keeps it: every later  *)
(* get of the key returns that same integer), also for a key first seen    *)
(* during message conversion.                                              *)
(***************************************************************************)
Injective(m) == \A k1, k2 \in DOMAIN m.map : k1 # k2 => m.map[k1] # m.map[k2]

Stable(m, n) ==
    \A k \in DOMAIN m.map :
        k \in DOMAIN n.map /\ n.map[k] = m.map[k] /\ IdMapperId(n, k) = m.map[k]

C1_IdMapperInjectiveStable ==
    /\ [](Injective(user_id_mapper) /\ Injective(stream_id_mapper))
    /\ [][Stable(user_id_mapper, user_id_mapper')
          /\ Stable(stream_id_mapper, stream_id_mapper')]_vars

\* a finished run in which a ghost sender got its id during message conversion
C1_Witness ==
    /\ pc = "done"
    /\ "u3" \in DOMAIN user_id_mapper.map
    /\ Cardinality(DOMAIN user_id_mapper.map) = 3
    /\ Cardinality(DOMAIN stream_id_mapper.map) = 2

(***************************************************************************)
(* C2: the recipient of every message written to an artifact is the id of  *)
(* exactly one Recipient of the recipients collection, a personal one for  *)
(* a message of the direct class and a stream one for a message of the     *)
(* channel class.                                                          *)
(***************************************************************************)
RecipientsWithId(id) == {i \in 1..Len(zerver_recipient) : zerver_recipient[i].id = id}

C2_RecipientExists ==
    \A i \in 1..Len(artifacts) :
        \A m \in Range(artifacts[i].zerver_message) :
            /\ Cardinality(RecipientsWithId(m.recipient)) = 1
            /\ \A j \in RecipientsWithId(m.recipient) :
                  zerver_recipient[j].type =
                      IF artifacts[i].is_pm_data THEN "personal" ELSE "stream"

\* a finished run that wrote a room message and a direct message
C2_Witness ==
    /\ pc = "done"
    /\ EmittedIn(TRUE) # {}
    /\ EmittedIn(FALSE) # {}

(***************************************************************************)
(* C3: a message of a direct channel with the two distinct members A and B *)
(* that was sent by one of them is addressed to the personal Recipient of  *)
(* the other one, never to the sender's own.                               *)
(***************************************************************************)
C3_DirectPeer ==
    \A m \in EmittedIn(TRUE) :
        \A ch \in ChannelsWithId(SourceOf(m).rid) :
            (/\ Len(ch.uids) = 2
             /\ ch.uids[1] # ch.uids[2]
             /\ SourceOf(m).u \in Range(ch.uids))
            => /\ \E other \in Range(ch.uids) \ {SourceOf(m).u} :
                     m.recipient \in PersonalRecipientIds(other)
               /\ m.recipient \notin PersonalRecipientIds(SourceOf(m).u)

\* a finished run with a direct message of each member to the other one
C3_Witness ==
    /\ pc = "done"
    /\ \E m1, m2 \in EmittedIn(TRUE) :
          /\ SourceOf(m1).u = "u1"
          /\ SourceOf(m2).u = "u2"
          /\ SourceOf(m1).rid = SourceOf(m2).rid
          /\ m1.recipient # m2.recipient

(***************************************************************************)
(* C4: a message of a discussion with title T and parent room X has the    *)
(* topic "(Discussion) " followed by T and the recipient of the stream     *)
(* made from X; a discussion is never a direct channel, never a stream and *)
(* never has a Recipient of its own.                                       *)
(***************************************************************************)
C4_DiscussionTopic ==
    /\ \A m \in EmittedIn(FALSE) :
          \A ch \in ChannelsWithId(SourceOf(m).rid) :
              ch.prid # NONE
              => /\ m.topic_name = <<"(Discussion) ">> \o ch.fname
                 /\ \E parent \in ChannelsWithId(ch.prid), s \in Range(zerver_stream),
                       r \in Range(zerver_recipient) :
                       /\ s.name = parent.name
                       /\ r.type = "stream"
                       /\ r.type_id = s.id
                       /\ m.recipient = r.id
    /\ \A m \in EmittedIn(TRUE) :
          \A ch \in ChannelsWithId(SourceOf(m).rid) : ch.prid = NONE
    /\ \A ch \in Range(rc_rooms) :
          ch.prid # NONE => \A s \in Range(zerver_stream) : s.name # ch.name
    /\ Len(zerver_stream) <= Cardinality({i \in 1..Len(rc_rooms) : rc_rooms[i].prid = NONE})
    /\ Len(zerver_recipient) \in {0, Len(user_handler) + Len(zerver_stream)}

\* a finished run that wrote a message of the discussion "Bug Triage"
C4_Witness ==
    /\ pc = "done"
    /\ \E m \in EmittedIn(FALSE) :
          /\ m.topic_name = <<"(Discussion) ", "Bug Triage">>
          /\ \E ch \in ChannelsWithId(SourceOf(m).rid) : ch.prid = "c1"

(***************************************************************************)
(* C5: the ids of the messages of all artifacts of a run are pairwise      *)
(* distinct and form one contiguous range of the "message" counter.        *)
(***************************************************************************)
C5_IdsDistinctContiguous ==
    LET ids == EmittedIds
    IN /\ Cardinality(ids) = EmittedCount
       /\ Cardinality({x \in ids : x + 1 \notin ids}) <= 1

(***************************************************************************)
(* C6: the n converted messages of one class are written to ceil(n/1000)   *)
(* artifacts, every artifact but the last one holds 1000 messages, the     *)
(* last one the remainder, in the order of the input.                      *)
(***************************************************************************)
ClassArtifacts(is_pm_data) == SelectSeq(artifacts, LAMBDA a : a.is_pm_data = is_pm_data)

Converted(is_pm_data) == SelectSeq(ClassMessages(is_pm_data), LAMBDA m : m.t = NONE)

C6_ChunksOfThousand ==
    \A is_pm_data \in BOOLEAN :
        pc \in AfterBatches(is_pm_data)
        => LET arts == ClassArtifacts(is_pm_data)
               converted == Converted(is_pm_data)
               n == Len(converted)
           IN /\ Len(arts) = (n + 999) \div 1000
              /\ \A k \in 1..Len(arts) :
                    /\ Len(arts[k].zerver_message) =
                          IF k < Len(arts) THEN 1000 ELSE n - 1000 * (Len(arts) - 1)
                    /\ \A j \in 1..Len(arts[k].zerver_message) :
                          arts[k].zerver_message[j].date_sent =
                              converted[1000 * (k - 1) + j].ts

(***************************************************************************)
(* C7: an event message (one with a "t" tag) has no effect: the conversion *)
(* of a class leaves the mappers and the converted list as the conversion  *)
(* of the class without its event messages would, consumes no counter, and *)
(* no message or reaction that is written comes from an event message.     *)
(***************************************************************************)
WithoutEvents(messages) == SelectSeq(messages, LAMBDA m : m.t = NONE)

ConversionIgnoresEvents(is_pm_data) ==
    pc = ConvertPc(is_pm_data)
    => LET kept == WithoutEvents(ClassMessages(is_pm_data))
           r == ConvertAll(kept, 1, Len(kept),
                    [ok |-> TRUE, umap |-> user_id_mapper, smap |-> stream_id_mapper,
                     raw |-> <<>>],
                    Context(is_pm_data))
       IN /\ user_id_mapper' = r.umap
          /\ stream_id_mapper' = r.smap
          /\ raw_messages' = r.raw
          /\ seq' = seq
          /\ total_reactions' = total_reactions
          /\ artifacts' = artifacts

C7_EventMessagesSkipped ==
    /\ [][ConversionIgnoresEvents(TRUE) /\ ConversionIgnoresEvents(FALSE)]_vars
    /\ [](/\ \A m \in Emitted : SourceOf(m).t = NONE
          /\ \A i \in 1..Len(raw_messages) : rc_messages[raw_messages[i].date_sent].t = NONE
          /\ \A i \in 1..Len(total_reactions) :
                \E m \in Emitted : m.id = total_reactions[i].message
          /\ NEXT_ID(seq, "message") <= Len(WithoutEvents(rc_messages)))

\* a finished run over an event message with a mention and a reaction, and a
\* plain message that was written
C7_Witness ==
    /\ pc = "done"
    /\ Emitted # {}
    /\ \E i \in 1..Len(rc_messages) :
          /\ rc_messages[i].t # NONE
          /\ rc_messages[i].mentions = <<"u3">>
          /\ rc_messages[i].reactions # <<>>
          /\ \E ch \in ChannelsWithId(rc_messages[i].rid) : ch.prid = NONE
    /\ "u3" \notin DOMAIN user_id_mapper.map

(***************************************************************************)
(* C8: fix_mentions replaces "@" + short handle by "@**" + full name +     *)
(* "**" for the mentioned users and then "@all" and "@here" by "@**all**": *)
(* "@alice please review" becomes "@**Alice Smith** please review", a body *)
(* with one "@" is rewritten at that place, and the result holds no "@all" *)
(* and no "@here".                                                         *)
(***************************************************************************)
StartsAt(s, i, sub) == i + Len(sub) - 1 <= Len(s) /\ SubSeq(s, i, i + Len(sub) - 1) = sub

Splice(s, i, n, new) == SubSeq(s, 1, i - 1) \o new \o SubSeq(s, i + n, Len(s))

BroadcastAt(s, i) ==
    IF StartsAt(s, i, <<"@", "a", "l", "l">>)
    THEN Splice(s, i, 4, <<"@", "*", "*", "a", "l", "l", "*", "*">>)
    ELSE IF StartsAt(s, i, <<"@", "h", "e", "r", "e">>)
    THEN Splice(s, i, 5, <<"@", "*", "*", "a", "l", "l", "*", "*">>)
    ELSE s

AliceHandler == <<Profile(7, <<"a", "l", "i", "c", "e">>, <<"Alice Smith">>)>>

C8_MentionsRewritten ==
    /\ fix_mentions(<<"@", "a", "l", "i", "c", "e", " ", "please review">>, <<7>>, AliceHandler)
           = <<"@", "*", "*", "Alice Smith", "*", "*", " ", "please review">>
    /\ pc = "fixed"
       => /\ ~Contains(probe.result, <<"@", "a", "l", "l">>)
          /\ ~Contains(probe.result, <<"@", "h", "e", "r", "e">>)
          /\ \A i \in 1..Len(probe.content) :
                {j \in 1..Len(probe.content) : probe.content[j] = "@"} = {i}
                => /\ probe.order = <<>>
                      => probe.result = BroadcastAt(probe.content, i)
                   /\ Len(probe.order) = 1
                      => LET user == get_user(user_handler, probe.order[1])
                             handle == <<"@">> \o user.short_name
                         IN probe.result =
                                IF StartsAt(probe.content, i, handle)
                                THEN Splice(probe.content, i, Len(handle),
                                            <<"@", "*", "*">> \o user.full_name \o <<"*", "*">>)
                                ELSE BroadcastAt(probe.content, i)

\* a body with a mention of user 0 and "@here", rewritten
C8_Witness ==
    /\ pc = "fixed"
    /\ probe.order # <<>>
    /\ Contains(probe.content, <<"@", "h", "e", "r", "e">>)
    /\ Contains(probe.result, <<"@", "*", "*", "A", "*", "*">>)
    /\ Contains(probe.result, <<"@", "*", "*", "a", "l", "l", "*", "*">>)

(***************************************************************************)
(* C9: the channel run and the direct run draw from the same "message" and *)
(* "reaction" counters: no message id and no reaction id is issued twice,  *)
(* the ids of the direct run are larger than those of the channel run, and *)
(* no counter is ever decremented, reset or reused.                        *)
(***************************************************************************)
ReactionIds == {total_reactions[i].id : i \in 1..Len(total_reactions)}

IdsIn(is_pm_data) == {m.id : m \in EmittedIn(is_pm_data)}

ReactionIdsIn(is_pm_data) ==
    LET ids == IdsIn(is_pm_data)
    IN {total_reactions[i].id :
           i \in {j \in 1..Len(total_reactions) : total_reactions[j].message \in ids}}

\* every member of low is smaller than every member of high
AllBelow(low, high) ==
    high # {} => LET least == CHOOSE x \in high : \A y \in high : x <= y
                 IN \A x \in low : x < least

CountersOnlyGrow == \A n \in DOMAIN seq : n \in DOMAIN seq' /\ seq'[n] >= seq[n]

C9_SharedCounters ==
    /\ [](/\ Cardinality(EmittedIds) = EmittedCount
          /\ Cardinality(ReactionIds) = Len(total_reactions)
          /\ AllBelow(IdsIn(FALSE), IdsIn(TRUE))
          /\ AllBelow(ReactionIdsIn(FALSE), ReactionIdsIn(TRUE))
          /\ \A id \in EmittedIds : id < NEXT_ID(seq, "message")
          /\ \A id \in ReactionIds : id < NEXT_ID(seq, "reaction"))
    /\ [][CountersOnlyGrow]_vars

\* a finished run with artifacts of both classes and reactions in both
C9_Witness ==
    /\ pc = "done"
    /\ Len(ClassArtifacts(FALSE)) >= 2
    /\ Len(ClassArtifacts(TRUE)) >= 2
    /\ ReactionIdsIn(FALSE) # {}
    /\ ReactionIdsIn(TRUE) # {}

(***************************************************************************)
(* C10: a message whose recipient cannot be resolved (its room is not in   *)
(* the export, the parent of its discussion is not a room, the peer of its *)
(* direct channel is missing or is not a user of the export) aborts the    *)
(* run: it is never written, the conversion of its class is never passed,  *)
(* no artifact of its class and no realm file is written.                  *)
(***************************************************************************)
Resolvable(message) ==
    \E ch \in ChannelsWithId(message.rid) :
        IF ch.prid # NONE
        THEN \E parent \in ChannelsWithId(ch.prid) : parent.prid = NONE /\ parent.t # "d"
        ELSE IF ch.t = "d"
        THEN LET k == IF Len(ch.uids) >= 1 /\ message.u = ch.uids[1] THEN 2 ELSE 1
             IN k <= Len(ch.uids) /\ \E u \in Range(rc_users) : u.id = ch.uids[k]
        ELSE TRUE

InClass(message, is_pm_data) ==
    /\ message.rid # NONE
    /\ is_pm_data <=> \E ch \in ChannelsWithId(message.rid) : ch.prid = NONE /\ ch.t = "d"

Unresolvable(is_pm_data) ==
    {i \in 1..Len(rc_messages) :
        /\ InClass(rc_messages[i], is_pm_data)
        /\ rc_messages[i].t = NONE
        /\ ~Resolvable(rc_messages[i])}

C10_UnresolvableAborts ==
    /\ \A is_pm_data \in BOOLEAN :
          Unresolvable(is_pm_data) # {}
          => /\ pc \notin AfterConversion(is_pm_data)
             /\ ClassArtifacts(is_pm_data) = <<>>
             /\ ~realm_written
    /\ Unresolvable(FALSE) # {} => artifacts = <<>>
    /\ \A m \in Emitted : Resolvable(SourceOf(m))

\* the channel messages were written, then a direct message to a member that
\* is not a user of the export stopped the run
C10_Witness ==
    /\ pc = "aborted"
    /\ Unresolvable(FALSE) = {}
    /\ Unresolvable(TRUE) # {}
    /\ EmittedIn(FALSE) # {}
    /\ ClassArtifacts(TRUE) = <<>>

(***************************************************************************)
(* C11: a message is dropped for length exactly when its body after the    *)
(* rewriting of mentions is longer than 10000: a rewritten body of 10000   *)
(* is written, a body that is over 10000 only after rewriting is not.  The *)
(* drop does not stop anything: once a class is finished every chunk has   *)
(* its artifact, and the messages written are exactly the converted ones   *)
(* whose rewritten body is within the ceiling.                             *)
(***************************************************************************)
MentionedIds(message) ==
    {user_id_mapper.map[message.mentions[i]] :
        i \in {j \in 1..Len(message.mentions) : message.mentions[j] \notin {"all", "here"}}}

RewrittenLen(message) ==
    ContentLen(fix_mentions(message.msg, MentionOrder(MentionedIds(message)), user_handler))

DatesIn(is_pm_data) == {m.date_sent : m \in EmittedIn(is_pm_data)}

C11_LengthDrop ==
    \A is_pm_data \in BOOLEAN :
        pc \in AfterBatches(is_pm_data)
        => LET converted == Converted(is_pm_data)
               kept == SelectSeq(converted, LAMBDA m : RewrittenLen(m) <= 10000)
               dates == DatesIn(is_pm_data)
               arts == ClassArtifacts(is_pm_data)
           IN /\ dates = {kept[i].ts : i \in 1..Len(kept)}
              /\ Len(arts) = (Len(converted) + 999) \div 1000
              /\ \A k \in 1..Len(arts) :
                    \A j \in 1..(Len(arts[k].zerver_message) - 1) :
                        arts[k].zerver_message[j].date_sent
                            < arts[k].zerver_message[j + 1].date_sent

\* a finished run: a body of 10000 was written, a body of 9998 that its
\* mention takes to 10002 was not, nor was a body of 10001; the rest of the
\* chunk and the next chunk were written
C11_Witness ==
    /\ pc = "done"
    /\ Len(artifacts) = 2
    /\ \E i \in 4..(Len(rc_messages) - 1) :
          /\ ContentLen(rc_messages[i].msg) = 10001
          /\ ContentLen(rc_messages[i - 1].msg) = 9998
          /\ RewrittenLen(rc_messages[i - 1]) = 10002
          /\ ContentLen(rc_messages[i - 2].msg) = 10000
          /\ RewrittenLen(rc_messages[i - 3]) = 9998
          /\ {i - 3, i - 2, i + 1} \subseteq DatesIn(FALSE)
          /\ i \notin DatesIn(FALSE)
          /\ i - 1 \notin DatesIn(FALSE)
          /\ \E m \in Range(artifacts[2].zerver_message) : m.date_sent = i + 1

(***************************************************************************)
(* C12: a reaction whose emoji name is not known is left out alone: its    *)
(* message is written, the reactions of the message with a known name have *)
(* their records (one per reacting user, in order), and the reaction that  *)
(* is left out draws no id: the ids of the reaction records are the first  *)
(* values of the "reaction" counter, without a gap.                        *)
(***************************************************************************)
KnownEmoji(reaction) == SubSeq(reaction.code, 2, Len(reaction.code) - 1) = <<"s", "m", "i", "l", "e">>

TargetIdOfUsername(username) ==
    (CHOOSE p \in Range(user_handler) : p.short_name = username).id

\* the records expected for reactions[i..]: <<emoji name, target user id>>
RECURSIVE ExpectedRecords(_, _, _)
ExpectedRecords(reactions, i, j) ==
    IF i > Len(reactions) THEN <<>>
    ELSE IF ~KnownEmoji(reactions[i]) \/ j > Len(reactions[i].usernames)
    THEN ExpectedRecords(reactions, i + 1, 1)
    ELSE <<<<SubSeq(reactions[i].code, 2, Len(reactions[i].code) - 1),
             TargetIdOfUsername(reactions[i].usernames[j])>>>>
         \o ExpectedRecords(reactions, i, j + 1)

RecordsOf(message_id) ==
    LET of_message == SelectSeq(total_reactions, LAMBDA r : r.message = message_id)
    IN [i \in 1..Len(of_message) |-> <<of_message[i].emoji_name, of_message[i].user_profile>>]

C12_UnknownEmojiDropped ==
    /\ \A m \in Emitted : RecordsOf(m.id) = ExpectedRecords(SourceOf(m).reactions, 1, 1)
    /\ \A i \in 1..Len(total_reactions) :
          /\ total_reactions[i].id = NEXT_ID(NewSeq, "reaction") + i - 1
          /\ \E m \in Emitted : m.id = total_reactions[i].message
    /\ NEXT_ID(seq, "reaction") = NEXT_ID(NewSeq, "reaction") + Len(total_reactions)
    /\ pc = "done"
       => \A i \in 1..Len(rc_messages) :
             (rc_messages[i].rid # NONE /\ rc_messages[i].t = NONE
              /\ RewrittenLen(rc_messages[i]) <= 10000)
             => i \in DatesIn(TRUE) \cup DatesIn(FALSE)

\* a finished run with two written messages that each have a reaction of an
\* unknown name followed by a known one of two users
C12_Witness ==
    /\ pc = "done"
    /\ Len(total_reactions) = 4
    /\ \E m1, m2 \in Emitted :
          /\ m1.id # m2.id
          /\ \A m \in {m1, m2} :
                /\ ~KnownEmoji(SourceOf(m).reactions[1])
                /\ Len(RecordsOf(m.id)) = 2

(***************************************************************************)
(* C13: the subscription table is one personal subscription per user, to   *)
(* the user's own personal recipient, and for every stream recipient one   *)
(* subscription per member of the SubscriberHandler set of its stream; no  *)
(* (user, recipient) pair occurs twice and every pair names an existing    *)
(* target user and an existing recipient.                                  *)
(***************************************************************************)
SubscriptionsBuilt ==
    pc \in {"map_receiver_id", "separate_messages", "convert_channel_messages",
            "batch_channel_messages", "convert_private_messages",
            "batch_private_messages", "write_realm", "done"}

SubscriptionPairs ==
    {<<zerver_subscription[i].user_profile, zerver_subscription[i].recipient>> :
        i \in 1..Len(zerver_subscription)}

C13_SubscriptionTable ==
    SubscriptionsBuilt
    => /\ SubscriptionPairs =
             {<<r.type_id, r.id>> : r \in {x \in Range(zerver_recipient) : x.type = "personal"}}
             \cup UNION {{<<u, r.id>> : u \in get_users(subscriber_handler, r.type_id)} :
                            r \in {x \in Range(zerver_recipient) : x.type = "stream"}}
       /\ \A p \in Range(user_handler) :
             Cardinality({r \in Range(zerver_recipient) :
                             /\ r.type = "personal"
                             /\ r.type_id = p.id
                             /\ <<p.id, r.id>> \in SubscriptionPairs}) = 1
       /\ Cardinality(SubscriptionPairs) = Len(zerver_subscription)
       /\ \A pair \in SubscriptionPairs :
             /\ \E p \in Range(user_handler) : p.id = pair[1]
             /\ \E r \in Range(zerver_recipient) : r.id = pair[2]

\* the table of a run with a stream of one member and a stream of none
C13_Witness ==
    /\ SubscriptionsBuilt
    /\ Len(zerver_subscription) = 3
    /\ \E r1, r2 \in Range(zerver_recipient) :
          /\ r1.type = "stream"
          /\ r2.type = "stream"
          /\ get_users(subscriber_handler, r1.type_id) = {}
          /\ Cardinality(get_users(subscriber_handler, r2.type_id)) = 1

(***************************************************************************)
(* C14: once the recipients are derived every target user has exactly one  *)
(* personal recipient and every stream exactly one stream recipient, and   *)
(* every recipient is the recipient of an existing user or stream; once    *)
(* the two lookup maps are filled each is defined exactly on the ids of    *)
(* the users (of the streams), gives the id of that recipient, and is      *)
(* injective.                                                              *)
(***************************************************************************)
RecipientsBuilt ==
    pc \in {"build_subscriptions", "map_receiver_id", "separate_messages",
            "convert_channel_messages", "batch_channel_messages",
            "convert_private_messages", "batch_private_messages", "write_realm", "done"}

MapsBuilt == RecipientsBuilt /\ pc \notin {"build_subscriptions", "map_receiver_id"}

RecipientsOf(type, type_id) ==
    {i \in 1..Len(zerver_recipient) :
        zerver_recipient[i].type = type /\ zerver_recipient[i].type_id = type_id}

LookupMapExact(map, type, ids) ==
    /\ DOMAIN map = ids
    /\ \A id \in ids : \A i \in RecipientsOf(type, id) : map[id] = zerver_recipient[i].id
    /\ \A id1, id2 \in ids : id1 # id2 => map[id1] # map[id2]

C14_RecipientsAndMaps ==
    /\ RecipientsBuilt
       => /\ \A i \in 1..Len(user_handler) :
                Cardinality(RecipientsOf("personal", user_handler[i].id)) = 1
          /\ \A i \in 1..Len(zerver_stream) :
                Cardinality(RecipientsOf("stream", zerver_stream[i].id)) = 1
          /\ \A i \in 1..Len(zerver_recipient) :
                \/ /\ zerver_recipient[i].type = "personal"
                   /\ \E j \in 1..Len(user_handler) :
                         user_handler[j].id = zerver_recipient[i].type_id
                \/ /\ zerver_recipient[i].type = "stream"
                   /\ \E j \in 1..Len(zerver_stream) :
                         zerver_stream[j].id = zerver_recipient[i].type_id
          /\ \A i, j \in 1..Len(zerver_recipient) :
                i # j => zerver_recipient[i].id # zerver_recipient[j].id
    /\ MapsBuilt
       => /\ LookupMapExact(user_id_to_recipient_id, "personal",
                            {user_handler[i].id : i \in 1..Len(user_handler)})
          /\ LookupMapExact(stream_id_to_recipient_id, "stream",
                            {zerver_stream[i].id : i \in 1..Len(zerver_stream)})

\* the maps of a run with two users and two streams
C14_Witness ==
    /\ MapsBuilt
    /\ Len(user_handler) = 2
    /\ Len(zerver_stream) = 2
    /\ Cardinality(DOMAIN user_id_to_recipient_id) = 2
    /\ Cardinality(DOMAIN stream_id_to_recipient_id) = 2
    /\ \E id \in DOMAIN stream_id_to_recipient_id : stream_id_to_recipient_id[id] # id

(***************************************************************************)
(* C15: every channel record of the export is in exactly one of the        *)
(* discussion, direct and room indexes: the discussion index if it has a   *)
(* parent reference, else the direct index if its type is "d", else the    *)
(* room index; a record with a parent reference and type "d" is a          *)
(* discussion only.  The team index has an entry exactly for the room      *)
(* records flagged teamMain, under their teamId.                           *)
(***************************************************************************)
Categorized == pc \notin {"process_users", "categorize_channels", "aborted"}

Holds(idx, ch) == \E i \in 1..Len(idx) : idx[i] = ch

C15_ChannelPrecedence ==
    Categorized
    => /\ \A ch \in Range(rc_rooms) :
             /\ Holds(dsc_id_to_dsc_map, ch) <=> ch.prid # NONE
             /\ Holds(direct_id_to_direct_map, ch) <=> (ch.prid = NONE /\ ch.t = "d")
             /\ Holds(room_id_to_room_map, ch) <=> (ch.prid = NONE /\ ch.t # "d")
             /\ Cardinality({idx \in {"dsc", "direct", "room"} :
                    \/ idx = "dsc" /\ InIndex(dsc_id_to_dsc_map, ch.id)
                    \/ idx = "direct" /\ InIndex(direct_id_to_direct_map, ch.id)
                    \/ idx = "room" /\ InIndex(room_id_to_room_map, ch.id)}) = 1
       /\ Len(dsc_id_to_dsc_map) + Len(direct_id_to_direct_map) + Len(room_id_to_room_map)
             = Len(rc_rooms)
       /\ DOMAIN team_id_to_team_map =
             {ch.teamId : ch \in {x \in Range(rc_rooms) :
                                     x.prid = NONE /\ x.t # "d" /\ x.teamMain}}
       /\ \A id \in DOMAIN team_id_to_team_map :
             LET ch == team_id_to_team_map[id]
             IN ch \in Range(rc_rooms) /\ ch.teamId = id /\ ch.teamMain
                /\ ch.prid = NONE /\ ch.t # "d"

\* a team main room and a record with a parent reference, type "d" and the
\* teamMain flag, categorized
C15_Witness ==
    /\ Categorized
    /\ DOMAIN team_id_to_team_map = {"t1"}
    /\ \E ch \in Range(rc_rooms) :
          /\ ch.prid # NONE
          /\ ch.t = "d"
          /\ ch.teamMain
          /\ Holds(dsc_id_to_dsc_map, ch)
          /\ direct_id_to_direct_map = <<>>

(***************************************************************************)
(* C16: the stages run in one order, each finished before the next starts: *)
(* users, channel indexes, streams, subscriber sets, recipients,           *)
(* subscriptions, lookup maps, partition, channel messages, direct         *)
(* messages, realm file.  A store is written only in its own stage, no     *)
(* message is converted before all users, streams, recipients and          *)
(* subscriptions exist, the direct messages start only when every channel  *)
(* artifact is written, and the realm file is written after every          *)
(* artifact.                                                               *)
(***************************************************************************)
StageRank(p) ==
    CASE p = "process_users" -> 1
      [] p = "categorize_channels" -> 2
      [] p = "convert_channel_data" -> 3
      [] p = "convert_subscription_data" -> 4
      [] p = "build_recipients" -> 5
      [] p = "build_subscriptions" -> 6
      [] p = "map_receiver_id" -> 7
      [] p = "separate_messages" -> 8
      [] p = "convert_channel_messages" -> 9
      [] p = "batch_channel_messages" -> 10
      [] p = "convert_private_messages" -> 11
      [] p = "batch_private_messages" -> 12
      [] p = "write_realm" -> 13
      [] p = "done" -> 14
      [] OTHER -> 15

ArtifactsDue(is_pm_data) ==
    (Len(WithoutEvents(SelectSeq(rc_messages, LAMBDA m : InClass(m, is_pm_data)))) + 999)
        \div 1000

StageOrderStep ==
    /\ StageRank(pc') >= StageRank(pc)
    /\ \/ StageRank(pc') <= StageRank(pc) + 1
       \/ pc' = "aborted"
       \/ /\ pc \in {"convert_channel_messages", "convert_private_messages"}
          /\ StageRank(pc') = StageRank(pc) + 2
          /\ raw_messages' = <<>>
    /\ user_handler' # user_handler => StageRank(pc) = 1
    /\ <<room_id_to_room_map, team_id_to_team_map, dsc_id_to_dsc_map,
         direct_id_to_direct_map>>' # <<room_id_to_room_map, team_id_to_team_map,
                                        dsc_id_to_dsc_map, direct_id_to_direct_map>>
          => StageRank(pc) = 2
    /\ zerver_stream' # zerver_stream => StageRank(pc) = 3
    /\ subscriber_handler' # subscriber_handler => StageRank(pc) = 4
    /\ zerver_recipient' # zerver_recipient => StageRank(pc) = 5
    /\ zerver_subscription' # zerver_subscription => StageRank(pc) = 6
    /\ <<stream_id_to_recipient_id, user_id_to_recipient_id>>'
          # <<stream_id_to_recipient_id, user_id_to_recipient_id>> => StageRank(pc) = 7
    /\ <<channel_messages, private_messages>>' # <<channel_messages, private_messages>>
          => StageRank(pc) = 8
    /\ <<raw_messages, artifacts, total_reactions>>' # <<raw_messages, artifacts, total_reactions>>
          => StageRank(pc) \in 9..12
    /\ realm_written' # realm_written => StageRank(pc) = 13

C16_StageOrder ==
    /\ [][StageOrderStep]_vars
    /\ [](/\ (raw_messages # <<>> \/ artifacts # <<>>)
             => /\ Len(user_handler) = Len(rc_users)
                /\ Len(zerver_stream) = Len(room_id_to_room_map)
                /\ Len(zerver_recipient) = Len(user_handler) + Len(zerver_stream)
                /\ Len(zerver_subscription) >= Len(user_handler)
                /\ DOMAIN subscriber_handler = {zerver_stream[i].id : i \in 1..Len(zerver_stream)}
                /\ Len(channel_messages) + Len(private_messages) =
                      Len(SelectSeq(rc_messages, LAMBDA m : m.rid # NONE))
          /\ ClassArtifacts(TRUE) # <<>>
             => Len(ClassArtifacts(FALSE)) = ArtifactsDue(FALSE)
          /\ \A i, j \in 1..Len(artifacts) :
                (artifacts[i].is_pm_data /\ ~artifacts[j].is_pm_data) => j < i
          /\ realm_written
             => \A is_pm_data \in BOOLEAN :
                   Len(ClassArtifacts(is_pm_data)) = ArtifactsDue(is_pm_data))

\* a finished run that wrote an artifact of each class before the realm file
C16_Witness ==
    /\ pc = "done"
    /\ realm_written
    /\ ClassArtifacts(FALSE) # <<>>
    /\ ClassArtifacts(TRUE) # <<>>

(***************************************************************************)
(* C17: each IdMapper hands out integers densely in first-observation      *)
(* order from the floor 0: the integers assigned so far are exactly        *)
(* 0 .. (number of distinct keys) - 1, a key seen for the first time gets  *)
(* an integer above every integer assigned before it, a repeated key       *)
(* consumes none, and so the n-th user of the source and the n-th room of  *)
(* the room index have the target id n - 1.                                *)
(***************************************************************************)
Assigned(m) == {m.map[k] : k \in DOMAIN m.map}

Dense(m) == Assigned(m) = 0..(Cardinality(DOMAIN m.map) - 1)

NewKeysOnTop(m, n) ==
    \A k \in DOMAIN n.map \ DOMAIN m.map : n.map[k] >= Cardinality(DOMAIN m.map)

UsersProcessed == pc \notin {"process_users", "aborted"}

StreamsConverted ==
    pc \notin {"process_users", "categorize_channels", "convert_channel_data", "aborted"}

C17_IdMapperDense ==
    /\ [](/\ Dense(user_id_mapper)
          /\ Dense(stream_id_mapper)
          /\ UsersProcessed
             => \A n \in 1..Len(user_id_to_user_map) :
                   /\ user_id_mapper.map[user_id_to_user_map[n].id] = n - 1
                   /\ user_handler[n].id = n - 1
          /\ StreamsConverted
             => \A n \in 1..Len(room_id_to_room_map) :
                   /\ stream_id_mapper.map[room_id_to_room_map[n].id] = n - 1
                   /\ zerver_stream[n].id = n - 1)
    /\ [][/\ NewKeysOnTop(user_id_mapper, user_id_mapper')
          /\ NewKeysOnTop(stream_id_mapper, stream_id_mapper')]_vars

\* a finished run in which the room list of a user named a known room again
\* and then a room id that is no room, which got the next integer
C17_Witness ==
    /\ pc = "done"
    /\ Len(zerver_stream) = 2
    /\ "c7" \in DOMAIN stream_id_mapper.map
    /\ stream_id_mapper.map["c7"] = 2
    /\ Cardinality(DOMAIN user_id_mapper.map) = 2

(***************************************************************************)
(* C18: the subscriber sets are written in the one step that populates     *)
(* them, after all room lists have been walked: one set per stream of the  *)
(* streams collection and none for any other stream id; the set of a       *)
(* stream is exactly the target ids of the users whose room list names its *)
(* room, the empty set when no user does; a discussion named in a room     *)
(* list gets no stream id and no set; and get on a stream id that was      *)
(* never set returns the empty set.                                        *)
(***************************************************************************)
StreamIds == {zerver_stream[i].id : i \in 1..Len(zerver_stream)}

Populated ==
    pc \notin {"process_users", "categorize_channels", "convert_channel_data",
               "convert_subscription_data", "aborted"}

NamingUsers(rc_room_id) ==
    {user_id_mapper.map[user_id_to_user_map[n].id] :
        n \in {m \in 1..Len(user_id_to_user_map) :
                  rc_room_id \in Range(user_id_to_user_map[m].rooms)}}

C18_SubscriberSets ==
    /\ [](/\ ~Populated /\ pc # "aborted" => subscriber_handler = EmptyMap
          /\ Populated
             => /\ DOMAIN subscriber_handler = StreamIds
                /\ \A i, j \in 1..Len(zerver_stream) :
                      i # j => zerver_stream[i].id # zerver_stream[j].id
                /\ \A i \in 1..Len(zerver_stream) :
                      get_users(subscriber_handler, zerver_stream[i].id) =
                         NamingUsers(room_id_to_room_map[i].id)
                /\ \A id \in Assigned(stream_id_mapper) \ StreamIds :
                      get_users(subscriber_handler, id) = {}
          /\ pc = "build_recipients"
             => \A i \in 1..Len(dsc_id_to_dsc_map) :
                   dsc_id_to_dsc_map[i].id \notin DOMAIN stream_id_mapper.map)
    /\ [][subscriber_handler' # subscriber_handler
             => pc = "convert_subscription_data"]_vars

\* the sets were just populated from room lists that name a discussion and a
\* room id that is no room: the one stream has the first user as its member,
\* and the stream id drawn for the unknown room has no set
C18_Witness ==
    /\ pc = "build_recipients"
    /\ Len(zerver_stream) = 1
    /\ Len(dsc_id_to_dsc_map) = 1
    /\ dsc_id_to_dsc_map[1].id \in Range(user_id_to_user_map[2].rooms)
    /\ "c7" \in DOMAIN stream_id_mapper.map
    /\ stream_id_mapper.map["c7"] \notin DOMAIN subscriber_handler
    /\ subscriber_handler[zerver_stream[1].id] = {0}

(***************************************************************************)
(* C19: the length drop comes before recipient resolution and reaction     *)
(* extraction, so a message whose rewritten body is over the ceiling never *)
(* stops the run: when the conversion of a class aborts, some message of   *)
(* the class that is within the ceiling has a recipient that cannot be     *)
(* resolved or a reaction by a username that is not in the export.         *)
(***************************************************************************)
OverLength(message) == RewrittenLen(message) > MaxContentLen

ReactorsKnown(message) ==
    \A i \in 1..Len(message.reactions) :
        \A j \in 1..Len(message.reactions[i].usernames) :
            \E u \in Range(rc_users) : u.username = message.reactions[i].usernames[j]

FatalWithinCeiling(is_pm_data) ==
    {i \in 1..Len(rc_messages) :
        /\ InClass(rc_messages[i], is_pm_data)
        /\ rc_messages[i].t = NONE
        /\ ~OverLength(rc_messages[i])
        /\ ~(Resolvable(rc_messages[i]) /\ ReactorsKnown(rc_messages[i]))}

C19_LengthDropBeforeResolution ==
    [][\A is_pm_data \in BOOLEAN :
          (pc = ConvertPc(is_pm_data) /\ pc' = "aborted")
          => FatalWithinCeiling(is_pm_data) # {}]_vars

(***************************************************************************)
(* C20: from the partitioning of the messages to the last artifact, the    *)
(* users, streams, recipients, subscriptions and subscriber sets stay as   *)
(* they were created: nothing is added, changed or removed.  No step ever  *)
(* alters an existing IdMapper entry, a written artifact with its messages *)
(* or a reaction record: the artifacts and the reaction records only grow  *)
(* at the end.                                                             *)
(***************************************************************************)
Extends(old, new) == Len(new) >= Len(old) /\ SubSeq(new, 1, Len(old)) = old

MessageStage == StageRank(pc) \in 8..12

C20_MessagesLeaveEntitiesAlone ==
    [][/\ MessageStage
          => /\ user_handler' = user_handler
             /\ zerver_stream' = zerver_stream
             /\ zerver_recipient' = zerver_recipient
             /\ zerver_subscription' = zerver_subscription
             /\ subscriber_handler' = subscriber_handler
       /\ Stable(user_id_mapper, user_id_mapper')
       /\ Stable(stream_id_mapper, stream_id_mapper')
       /\ Extends(artifacts, artifacts')
       /\ Extends(total_reactions, total_reactions')]_vars

\* a finished run that wrote an artifact with reactions for the channel
\* messages and then one for the private messages, with every collection
\* of the earlier stages populated
C20_Witness ==
    /\ pc = "done"
    /\ Len(ClassArtifacts(FALSE)) = 1
    /\ Len(ClassArtifacts(TRUE)) = 1
    /\ Len(total_reactions) >= 2
    /\ Len(user_handler) = 2
    /\ zerver_stream # <<>>
    /\ Len(zerver_recipient) = Len(user_handler) + Len(zerver_stream)
    /\ Len(zerver_subscription) > Len(user_handler)
    /\ \E id \in DOMAIN subscriber_handler : subscriber_handler[id] # {}

(***************************************************************************)
(* C21: every chunk is written as one artifact that takes the next value   *)
(* of the one dump-file counter of the run: the numbers of the artifacts   *)
(* are consecutive in the order of writing, hence pairwise distinct, the   *)
(* counter stands one past the last number, the artifacts of the channel   *)
(* class are numbered before those of the direct class, a finished class   *)
(* has one artifact per chunk of its converted messages (also for a chunk  *)
(* that lost all its messages to the length drop), and none when it has no *)
(* message to convert.                                                     *)
(***************************************************************************)
ChunksOf(n) == (n + chunk_size - 1) \div chunk_size

DumpFileCounter == NEXT_ID(seq, "dump_file_id0")

C21_DumpFileNumbers ==
    /\ \A i \in 1..Len(artifacts) :
          artifacts[i].dump_file_id = artifacts[1].dump_file_id + (i - 1)
    /\ artifacts # <<>> => DumpFileCounter = artifacts[Len(artifacts)].dump_file_id + 1
    /\ \A i, j \in 1..Len(artifacts) :
          (~artifacts[i].is_pm_data /\ artifacts[j].is_pm_data)
          => artifacts[i].dump_file_id < artifacts[j].dump_file_id
    /\ \A is_pm_data \in BOOLEAN :
          pc \in AfterBatches(is_pm_data)
          => Len(ClassArtifacts(is_pm_data)) = ChunksOf(Len(Converted(is_pm_data)))

\* a finished run of two chunks of channel messages, the second of which lost
\* its only message to the length drop, and two chunks of direct messages
C21_Witness ==
    /\ pc = "done"
    /\ Len(artifacts) = 4
    /\ artifacts[2].zerver_message = <<>>
    /\ ~artifacts[2].is_pm_data
    /\ artifacts[3].is_pm_data
    /\ artifacts[4].dump_file_id = artifacts[1].dump_file_id + 3

(***************************************************************************)
(* C22: user conversion registers the accounts of the users collection in  *)
(* order, each once.  An account whose type is not "user" is converted as  *)
(* an inactive mirror dummy, with the address username-type@domain when it *)
(* has no email.  An account of type "user" with no email aborts the run:  *)
(* the accounts before it are registered, it and the ones after it are     *)
(* not.  Nothing else aborts user conversion, so the duplicate             *)
(* registration error is never raised.                                     *)
(***************************************************************************)
NoEmail(user_dict) == user_dict.type = "user" /\ user_dict.emails = <<>>

WithoutEmail == {n \in 1..Len(user_id_to_user_map) : NoEmail(user_id_to_user_map[n])}

Registered ==
    IF WithoutEmail = {} THEN Len(user_id_to_user_map)
    ELSE (CHOOSE n \in WithoutEmail : \A m \in WithoutEmail : n <= m) - 1

ExpectedEmail(user_dict) ==
    IF user_dict.emails # <<>> THEN user_dict.emails[1]
    ELSE user_dict.username \o <<"-", user_dict.type, "@", domain_name>>

C22_UserConversion ==
    /\ [](/\ pc = "process_users" => user_handler = <<>>
          /\ pc # "process_users"
             => /\ Len(user_handler) = Registered
                /\ WithoutEmail # {} => pc = "aborted"
                /\ \A i, j \in 1..Len(user_handler) :
                      i # j => user_handler[i].id # user_handler[j].id
                /\ \A n \in 1..Registered :
                      LET user_dict == user_id_to_user_map[n]
                          user == user_handler[n]
                      IN /\ user.id = user_id_mapper.map[user_dict.id]
                         /\ user.short_name = user_dict.username
                         /\ user.email = ExpectedEmail(user_dict)
                         /\ user.delivery_email = ExpectedEmail(user_dict)
                         /\ user.is_active = (user_dict.type = "user")
                         /\ user.is_mirror_dummy = (user_dict.type # "user"))
    /\ [][pc = "process_users" => (pc' = "aborted" <=> WithoutEmail # {})]_vars

\* a finished run whose first account is a bot without an email, converted
\* with the placeholder address as an inactive user
C22_Witness ==
    /\ pc = "done"
    /\ Len(user_handler) = 2
    /\ rc_users[1].type = "bot"
    /\ rc_users[1].emails = <<>>
    /\ user_handler[1].email = <<"a", "-", "bot", "@", domain_name>>
    /\ ~user_handler[1].is_active

(***************************************************************************)
(* C23: the sender of every message written to an artifact, and every user *)
(* id of the mention set resolved for it, is the id of a user registered   *)
(* in the UserHandler.                                                     *)
(***************************************************************************)
MentionsRegistered ==
    \A m \in Emitted : \A id \in MentionedIds(SourceOf(m)) : HandlerHas(user_handler, id)

SendersRegistered == \A m \in Emitted : HandlerHas(user_handler, m.sender)

C23_SendersAndMentionsRegistered == SendersRegistered /\ MentionsRegistered

(***************************************************************************)
(* C24: every reaction record refers to a user registered in the           *)
(* UserHandler, and in a run that has not aborted to a message that was    *)
(* written to an artifact; in particular a message dropped for length      *)
(* leaves no reaction record, and a reaction by a username that is not in  *)
(* the export leaves no record either.                                     *)
(***************************************************************************)
ReactedMessages == {total_reactions[i].message : i \in 1..Len(total_reactions)}

DroppedWithReactions ==
    {i \in 1..Len(rc_messages) :
        /\ rc_messages[i].t = NONE
        /\ rc_messages[i].reactions # <<>>
        /\ OverLength(rc_messages[i])}

C24_ReactionsRefer ==
    /\ \A i \in 1..Len(total_reactions) :
          HandlerHas(user_handler, total_reactions[i].user_profile)
    /\ pc # "aborted"
       => LET ids == EmittedIds
          IN \A i \in 1..Len(total_reactions) : total_reactions[i].message \in ids

\* a finished run with a message that has reaction records and a message
\* with a known reaction that was dropped for length
C24_Witness ==
    /\ pc = "done"
    /\ Len(total_reactions) = 2
    /\ Len(rc_messages) = 2
    /\ DroppedWithReactions # {}
    /\ Cardinality(ReactedMessages) = 1

(***************************************************************************)
(* C25: after the partitioning, in either variant of the importer, every   *)
(* message with a channel reference is in exactly one of the two lists,    *)
(* the direct list exactly when its channel is in the direct index, each   *)
(* list in the order of the source; a message without a channel reference  *)
(* is in neither list, and the partitioning never aborts.                  *)
(***************************************************************************)
Referenced(message) == message.rid # NONE /\ message.rid # ""

InSourceOrder(list) ==
    /\ \A i \in 1..Len(list) : list[i].ts \in 1..Len(rc_messages) /\ rc_messages[list[i].ts] = list[i]
    /\ \A i, j \in 1..Len(list) : i < j => list[i].ts < list[j].ts

Partitioned ==
    /\ InSourceOrder(private_messages)
    /\ InSourceOrder(channel_messages)
    /\ {private_messages[i].ts : i \in 1..Len(private_messages)} =
          {n \in 1..Len(rc_messages) :
              /\ Referenced(rc_messages[n])
              /\ InIndex(direct_id_to_direct_map, rc_messages[n].rid)}
    /\ {channel_messages[i].ts : i \in 1..Len(channel_messages)} =
          {n \in 1..Len(rc_messages) :
              /\ Referenced(rc_messages[n])
              /\ ~InIndex(direct_id_to_direct_map, rc_messages[n].rid)}

\* the part of C25 about rocketchat.py
PartitionedMain == pc = "separated" => Partitioned

C25_Partitioning == pc # "separate" => (pc # "aborted" /\ Partitioned)

====
